---- MODULE Spec2Model ----
(***************************************************************************)
(* Route-string-to-file resolution of the next-typesafe-url TypeScript     *)
(* plugin (resolver.ts), over a model of the host file system.             *)
(*                                                                         *)
(* A string is a sequence of one-character strings, so that splitting on   *)
(* "/", the %5F replacement and the group-name pattern are computed        *)
(* character by character, as the code computes them.  A path is the       *)
(* sequence of the components of a normalised absolute POSIX path          *)
(* ("/p/app/a" is <<p, app, a>>), which is what path.join returns up to    *)
(* the rendering with "/" separators.                                      *)
(***************************************************************************)
EXTENDS Integers, Sequences, FiniteSets, TLC

VARIABLES
    files,    \* the paths for which sys.fileExists answers true
    tree,     \* existing directory |-> the names of its subdirectories, in listing order
    host,     \* the plugin's setup: its ResolvedConfig, and how the host renders a listed entry
    call      \* the resolver call that has just completed (op = "idle": none)

vars == <<files, tree, host, call>>

----------------------------------------------------------------------------
(* Bounds of the model. *)

MaxDirs == 3        \* directories created below the app root
MaxFiles == 2       \* files present at once
MaxTokens == 4      \* pieces a route string of the parsing specification is made of

----------------------------------------------------------------------------
(* Strings. *)

S_ts == <<"t", "s">>
S_tsx == <<"t", "s", "x">>
S_routeType == <<"r", "o", "u", "t", "e", "T", "y", "p", "e">>
S_route == <<"r", "o", "u", "t", "e">>
S_srcapp == <<"s", "r", "c", "/", "a", "p", "p">>
S_app == <<"a", "p", "p">>
S_src == <<"s", "r", "c">>
S_p == <<"p">>
S_dot == <<".">>
S_dotdot == <<".", ".">>

\* String.prototype.slice(1)
Slice1(s) == IF Len(s) <= 1 THEN <<>> ELSE SubSeq(s, 2, Len(s))

\* String.prototype.startsWith
StartsWith(s, pre) == Len(s) >= Len(pre) /\ SubSeq(s, 1, Len(pre)) = pre

\* String.prototype.split on a one-character separator (any character of seps):
\* the pieces between separators, empty pieces kept; "" splits to [""].
RECURSIVE SplitFrom(_, _, _, _)
SplitFrom(s, seps, i, cur) ==
    IF i > Len(s) THEN <<cur>>
    ELSE IF s[i] \in seps THEN <<cur>> \o SplitFrom(s, seps, i + 1, <<>>)
    ELSE SplitFrom(s, seps, i + 1, Append(cur, s[i]))

Split(s, seps) == SplitFrom(s, seps, 1, <<>>)

\* Array.prototype.filter(Boolean) on strings: the empty strings are dropped.
FilterBoolean(ss) == SelectSeq(ss, LAMBDA x : x # <<>>)

\* seg.replace(/%5F/g, "_"): every occurrence, left to right, not overlapping.
RECURSIVE ReplaceFrom(_, _)
ReplaceFrom(s, i) ==
    IF i > Len(s) THEN <<>>
    ELSE IF i + 2 <= Len(s) /\ s[i] = "%" /\ s[i + 1] = "5" /\ s[i + 2] = "F"
         THEN <<"_">> \o ReplaceFrom(s, i + 3)
    ELSE <<s[i]>> \o ReplaceFrom(s, i + 1)

\* Mutant of unescapeSegment: seg.replace("%5F", "_"), the first occurrence only.
RECURSIVE ReplaceFirstFrom(_, _)
ReplaceFirstFrom(s, i) ==
    IF i > Len(s) THEN <<>>
    ELSE IF i + 2 <= Len(s) /\ s[i] = "%" /\ s[i + 1] = "5" /\ s[i + 2] = "F"
         THEN <<"_">> \o SubSeq(s, i + 3, Len(s))
    ELSE <<s[i]>> \o ReplaceFirstFrom(s, i + 1)

unescapeSegment_FirstOnly(seg) == ReplaceFirstFrom(seg, 1)

unescapeSegment(seg) == ReplaceFrom(seg, 1)

MapSeq(f(_), ss) == [i \in 1..Len(ss) |-> f(ss[i])]

\* /^\([^)]+\)$/.test(dirName)
isRouteGroupName(dirName) ==
    /\ Len(dirName) >= 3
    /\ dirName[1] = "("
    /\ dirName[Len(dirName)] = ")"
    /\ \A i \in 2..(Len(dirName) - 1) : dirName[i] # ")"

----------------------------------------------------------------------------
(* Paths: path.join of node's posix path module. *)

\* normalizeString step for one component of an absolute path
PushComponent(path, comp) ==
    IF comp = <<>> \/ comp = S_dot THEN path
    ELSE IF comp = S_dotdot
         THEN (IF path = <<>> THEN <<>> ELSE SubSeq(path, 1, Len(path) - 1))
    ELSE Append(path, comp)

RECURSIVE PushAll(_, _)
PushAll(path, comps) ==
    IF comps = <<>> THEN path
    ELSE PushAll(PushComponent(path, Head(comps)), Tail(comps))

\* path.join(base, ...parts) for an absolute, normalised base: the parts are
\* joined with "/" and the result is normalised.
RECURSIVE PathJoin(_, _)
PathJoin(base, parts) ==
    IF parts = <<>> THEN base
    ELSE PathJoin(PushAll(base, Split(Head(parts), {"/"})), Tail(parts))

\* The text of a path: "/" before every component.
RECURSIVE Render(_)
Render(path) ==
    IF path = <<>> THEN <<>>
    ELSE <<"/">> \o Head(path) \o Render(Tail(path))

----------------------------------------------------------------------------
(* The host file system, as ts.sys answers the resolver. *)

\* typescript.sys.fileExists(filePath)
fileExists(fs, filePath) == filePath \in fs.files

\* typescript.sys.directoryExists(path)
directoryExists(fs, path) == path \in DOMAIN fs.tree

\* One listed entry, as the host renders it: "(auth)/" or "/p/src/app/(auth)".
renderEntry(fs, dir, name) ==
    IF fs.fmt = "name/" THEN name \o <<"/">> ELSE Render(Append(dir, name))

\* typescript.sys.readDirectory(currentDir, undefined, undefined, ["*/"]):
\* the subdirectories in listing order, or an exception.  A directory in
\* fs.hushed answers with the empty listing.
readDirectory(fs, dir) ==
    IF dir \in fs.noread THEN [threw |-> TRUE, entries |-> <<>>]
    ELSE IF dir \notin DOMAIN fs.tree \/ dir \in fs.hushed
         THEN [threw |-> FALSE, entries |-> <<>>]
    ELSE [threw |-> FALSE,
          entries |-> [i \in 1..Len(fs.tree[dir]) |-> renderEntry(fs, dir, fs.tree[dir][i])]]

----------------------------------------------------------------------------
(* resolver.ts *)

\* Mutant of parseRouteSegments: the empty pieces are kept.
parseRouteSegments_KeepEmpty(route) ==
    IF route = <<"/">> THEN <<>>
    ELSE Split(Slice1(route), {"/"})

\* parseRouteSegments(route)
parseRouteSegments(route) ==
    IF route = <<"/">> THEN <<>>
    ELSE FilterBoolean(Split(Slice1(route), {"/"}))

\* segments.map((seg) => seg.replace(/%5F/g, "_"))
escapedSegmentsOf(segments) == MapSeq(unescapeSegment, segments)

\* `${config.routeTypeFileName}.${ext}`
routeTypeFile(cfg, ext) == cfg.routeTypeFileName \o <<".">> \o ext

\* path.join(projectPath, config.appDir)
appDirPathOf(projectPath, cfg) == PathJoin(projectPath, <<cfg.appDir>>)

\* buildPossiblePaths(typescript, segments, projectPath, config)
buildPossiblePaths(segments, projectPath, cfg) ==
    LET appDirPath == appDirPathOf(projectPath, cfg)
        escapedSegments == escapedSegmentsOf(segments)
        routeDir == IF Len(escapedSegments) > 0
                    THEN PathJoin(appDirPath, escapedSegments)
                    ELSE appDirPath
    IN  << PathJoin(routeDir, <<routeTypeFile(cfg, S_ts)>>),
           PathJoin(routeDir, <<routeTypeFile(cfg, S_tsx)>>) >>

\* The values resolveRouteToFile returns: a RouteResolution, or null.
Resolution(filePath, exists) == [isNull |-> FALSE, filePath |-> filePath, exists |-> exists]
NullResolution == [isNull |-> TRUE, filePath |-> <<>>, exists |-> FALSE]

\* Mutant of firstExisting: the candidates are tried last to first (.tsx before .ts).
firstExisting_Reversed(fs, possiblePaths, i) ==
    LET hits == {j \in i..Len(possiblePaths) : possiblePaths[j] \in fs.files}
    IN  IF hits = {} THEN NullResolution
        ELSE Resolution(possiblePaths[CHOOSE j \in hits : \A k \in hits : k <= j], TRUE)

\* for (const filePath of possiblePaths) if (fileExists(filePath)) return {filePath, exists: true}
RECURSIVE firstExisting(_, _, _)
firstExisting(fs, possiblePaths, i) ==
    IF i > Len(possiblePaths) THEN NullResolution
    ELSE IF fileExists(fs, possiblePaths[i]) THEN Resolution(possiblePaths[i], TRUE)
    ELSE firstExisting(fs, possiblePaths, i + 1)

\* Mutant of resolveRouteToFile: null when no candidate exists.
resolveRouteToFile_NullWhenMissing(fs, route, projectPath, cfg) ==
    firstExisting(fs, buildPossiblePaths(parseRouteSegments(route), projectPath, cfg), 1)

\* Mutant of resolveRouteToFile: when no candidate exists, any definition
\* file found on the file system is returned.
resolveRouteToFile_AnyFile(fs, route, projectPath, cfg) ==
    LET possiblePaths == buildPossiblePaths(parseRouteSegments(route), projectPath, cfg)
        hit == firstExisting(fs, possiblePaths, 1)
    IN  IF ~hit.isNull THEN hit
        ELSE IF fs.files # {} THEN Resolution(CHOOSE f \in fs.files : TRUE, TRUE)
        ELSE Resolution(possiblePaths[1], FALSE)

\* resolveRouteToFile(typescript, route, projectPath, config)
resolveRouteToFile(fs, route, projectPath, cfg) ==
    LET segments == parseRouteSegments(route)
        possiblePaths == buildPossiblePaths(segments, projectPath, cfg)
        hit == firstExisting(fs, possiblePaths, 1)
    IN  IF ~hit.isNull THEN hit
        ELSE IF Len(possiblePaths) > 0 THEN Resolution(possiblePaths[1], FALSE)
        ELSE NullResolution

\* The values searchDir returns: a path, or null; `raised` says that an
\* exception left the call instead.  via records, for a found path, how each
\* directory on the way was entered: "segment" (the direct path, one segment
\* consumed) or "group" (the route-group rule, no segment consumed).  listed
\* records the directories whose listing the call asked for.
Found(filePath) ==
    [raised |-> FALSE, found |-> TRUE, path |-> filePath, via |-> <<>>, listed |-> {}]
NotFound == [raised |-> FALSE, found |-> FALSE, path |-> <<>>, via |-> <<>>, listed |-> {}]
Raised == [raised |-> TRUE, found |-> FALSE, path |-> <<>>, via |-> <<>>, listed |-> {}]
Entered(how, r) == IF r.found THEN [r EXCEPT !.via = <<how>> \o @] ELSE r
Listing(dirs, r) == [r EXCEPT !.listed = @ \cup dirs]

\* const parts = entry.split(/[/\\]/);
\* const dirName = parts[parts.length - 1] || parts[parts.length - 2];
dirNameOf(entry) ==
    LET parts == Split(entry, {"/", "\\"})
    IN  IF parts[Len(parts)] # <<>> THEN parts[Len(parts)]
        ELSE IF Len(parts) >= 2 THEN parts[Len(parts) - 1]
        ELSE <<>>

\* Mutant of onReadFailure: the exception of the directory read is not caught.
onReadFailure_Propagate == Raised

\* The catch block of searchDir: the directory read failed, the search goes
\* on without route groups and returns null.
onReadFailure == NotFound

\* searchDir(typescript, currentDir, remainingSegments, config)
RECURSIVE searchDir(_, _, _, _)
RECURSIVE searchEntries(_, _, _, _, _, _)

\* Mutant of searchHere: the .ts path is returned without asking whether it exists.
searchHere_Unchecked(fs, currentDir, cfg) ==
    Found(PathJoin(currentDir, <<routeTypeFile(cfg, S_ts)>>))

\* Mutant of searchHere: the .tsx file is asked for before the .ts file.
searchHere_TsxFirst(fs, currentDir, cfg) ==
    LET tsPath == PathJoin(currentDir, <<routeTypeFile(cfg, S_ts)>>)
        tsxPath == PathJoin(currentDir, <<routeTypeFile(cfg, S_tsx)>>)
    IN  IF fileExists(fs, tsxPath) THEN Found(tsxPath)
        ELSE IF fileExists(fs, tsPath) THEN Found(tsPath)
        ELSE NotFound

\* Mutant of searchHere: when only the .tsx file exists, the .ts path is
\* returned.
searchHere_TsForTsx(fs, currentDir, cfg) ==
    LET tsPath == PathJoin(currentDir, <<routeTypeFile(cfg, S_ts)>>)
        tsxPath == PathJoin(currentDir, <<routeTypeFile(cfg, S_tsx)>>)
    IN  IF fileExists(fs, tsPath) THEN Found(tsPath)
        ELSE IF fileExists(fs, tsxPath) THEN Found(tsPath)
        ELSE NotFound

\* The base case: no more segments, check for the routeType file here.
searchHere(fs, currentDir, cfg) ==
    LET tsPath == PathJoin(currentDir, <<routeTypeFile(cfg, S_ts)>>)
        tsxPath == PathJoin(currentDir, <<routeTypeFile(cfg, S_tsx)>>)
    IN  IF fileExists(fs, tsPath) THEN Found(tsPath)
        ELSE IF fileExists(fs, tsxPath) THEN Found(tsxPath)
        ELSE NotFound

\* Mutant of directWins: the result of the direct path is never taken, the
\* route groups are searched first.
directWins_Never(fs, directPath, result) == FALSE

\* Mutant of directWins: once the directory named by the segment exists, the
\* result of the search below it is final.
directWins_WheneverDirExists(fs, directPath, result) == directoryExists(fs, directPath)

\* if (directoryExists(directPath)) { const result = ...; if (result) return result; }
directWins(fs, directPath, result) ==
    directoryExists(fs, directPath) /\ (result.raised \/ result.found)

\* Mutant of searchEntries: every route group is explored and the match of
\* the last one in the listing is returned.
RECURSIVE searchEntries_LastWins(_, _, _, _, _, _)
searchEntries_LastWins(fs, currentDir, remainingSegments, cfg, entries, i) ==
    IF i > Len(entries) THEN NotFound
    ELSE LET dirName == dirNameOf(entries[i])
             later == searchEntries_LastWins(fs, currentDir, remainingSegments,
                                             cfg, entries, i + 1)
         IN  IF dirName = <<>> \/ ~isRouteGroupName(dirName) THEN later
             ELSE LET result == searchDir(fs, PathJoin(currentDir, <<dirName>>),
                                          remainingSegments, cfg)
                  IN  IF later.found THEN Listing(result.listed, later)
                      ELSE IF result.found THEN Listing(later.listed, Entered("group", result))
                      ELSE Listing(result.listed, later)

\* for (const entry of entries) { ... } inside the try block, from entry i on
searchEntries(fs, currentDir, remainingSegments, cfg, entries, i) ==
    IF i > Len(entries) THEN NotFound
    ELSE LET dirName == dirNameOf(entries[i])
         IN  IF dirName = <<>> \/ ~isRouteGroupName(dirName)
             THEN searchEntries(fs, currentDir, remainingSegments, cfg, entries, i + 1)
             ELSE LET groupPath == PathJoin(currentDir, <<dirName>>)
                      result == searchDir(fs, groupPath, remainingSegments, cfg)
                  IN  IF result.raised THEN Listing(result.listed, onReadFailure)
                      ELSE IF result.found THEN Entered("group", result)
                      ELSE Listing(result.listed,
                                   searchEntries(fs, currentDir, remainingSegments,
                                                 cfg, entries, i + 1))

searchDir(fs, currentDir, remainingSegments, cfg) ==
    IF Len(remainingSegments) = 0 THEN searchHere(fs, currentDir, cfg)
    ELSE LET nextSegment == Head(remainingSegments)
             rest == Tail(remainingSegments)
         IN  IF nextSegment = <<>> THEN NotFound
             ELSE LET directPath == PathJoin(currentDir, <<nextSegment>>)
                      direct == IF directoryExists(fs, directPath)
                                THEN searchDir(fs, directPath, rest, cfg)
                                ELSE NotFound
                  IN  IF directWins(fs, directPath, direct) THEN Entered("segment", direct)
                      ELSE LET listing == readDirectory(fs, currentDir)
                           IN  Listing(direct.listed \cup {currentDir},
                                       IF listing.threw THEN onReadFailure
                                       ELSE searchEntries(fs, currentDir, remainingSegments,
                                                          cfg, listing.entries, 1))

\* Mutant of findRouteTypeWithGroups: its own replacement of the escape
\* (the second one of resolver.ts) takes the first occurrence only.
findRouteTypeWithGroups_FirstOnly(fs, route, projectPath, cfg) ==
    searchDir(fs, appDirPathOf(projectPath, cfg),
              MapSeq(unescapeSegment_FirstOnly, parseRouteSegments(route)), cfg)

\* findRouteTypeWithGroups(typescript, route, projectPath, config)
findRouteTypeWithGroups(fs, route, projectPath, cfg) ==
    LET appDirPath == appDirPathOf(projectPath, cfg)
        segments == parseRouteSegments(route)
        escapedSegments == escapedSegmentsOf(segments)
    IN  searchDir(fs, appDirPath, escapedSegments, cfg)

----------------------------------------------------------------------------------------------------------------------------------------
(* config.ts and the inputs of the model. *)

\* DEFAULT_CONFIG
DEFAULT_CONFIG == [appDir |-> S_srcapp, routeTypeFileName |-> S_routeType, debug |-> FALSE]

\* A user configuration that overrides both names (resolveConfig).
CustomConfig == [appDir |-> S_app, routeTypeFileName |-> S_route, debug |-> FALSE]

\* The setups: the default configuration on a host that lists "(auth)/", the
\* custom one on a host that lists "/p/app/(auth)".
Hosts == { [config |-> DEFAULT_CONFIG, fmt |-> "name/"],
           [config |-> CustomConfig, fmt |-> "path"] }

config == host.config

\* info.project.getCurrentDirectory(): "/p"
ProjectPath == <<S_p>>

\* The app directory of the setup: "/p/src/app" or "/p/app".
AppRoot == IF config = DEFAULT_CONFIG THEN <<S_p, S_src, S_app>> ELSE <<S_p, S_app>>

\* The names of the directories created below the app root: a private
\* folder "_a" and two route groups.
N_a == <<"a">>
N_ua == <<"_", "a">>
N_g == <<"(", "g", ")">>
N_h == <<"(", "h", ")">>
DirNames == {N_ua, N_g, N_h}

\* The names of the files created: the definition files of the configuration.
FileNames == {routeTypeFile(config, e) : e \in {S_ts, S_tsx}}

\* The route strings the resolver is called with.
R_root == <<"/">>
R_esc == <<"/", "%", "5", "F", "a">>
R_two == <<"/", "_", "a", "/", "%", "5", "F", "a">>
R_up == <<"/", ".", ".">>
Routes == {R_root, R_esc, R_two, R_up}

\* The file system a call sees: the current files and directories, with the
\* listing of the directories in failing throwing during the call.
FS(failing) ==
    [files |-> files, tree |-> tree, noread |-> failing, hushed |-> {}, fmt |-> host.fmt]

Idle == [op |-> "idle"]

IsPrefix(p, q) == Len(p) <= Len(q) /\ SubSeq(q, 1, Len(p)) = p

\* The directories from "/" down to the app root, each listing the next one.
BaseTree(cfg) ==
    LET root == IF cfg = DEFAULT_CONFIG THEN <<S_p, S_src, S_app>> ELSE <<S_p, S_app>>
    IN  [d \in {SubSeq(root, 1, n) : n \in 0..Len(root)} |->
            IF Len(d) < Len(root) THEN <<root[Len(d) + 1]>> ELSE <<>>]

Init ==
    /\ host \in Hosts
    /\ files = {}
    /\ tree = BaseTree(config)
    /\ call = Idle

----------------------------------------------------------------------------
(* The environment: the project's files change between calls. *)

\* The directories at or below the app root (those above it are its ancestors).
AppDirs == {d \in DOMAIN tree : Len(d) >= Len(AppRoot)}

\* A new directory is listed last in its parent.
Mkdir(parent, name) ==
    LET child == Append(parent, name)
    IN  /\ call.op = "idle"
        /\ Len(parent) >= Len(AppRoot)
        /\ child \notin DOMAIN tree
        /\ child \notin files
        /\ Cardinality(DOMAIN tree) - (Len(AppRoot) + 1) < MaxDirs
        /\ tree' = [d \in DOMAIN tree \cup {child} |->
                      IF d = child THEN <<>>
                      ELSE IF d = parent THEN Append(tree[d], name)
                      ELSE tree[d]]
        /\ UNCHANGED <<files, host, call>>

Rmdir(dir) ==
    /\ call.op = "idle"
    /\ Len(dir) > Len(AppRoot)
    /\ tree[dir] = <<>>
    /\ \A f \in files : ~IsPrefix(dir, f)
    /\ LET parent == SubSeq(dir, 1, Len(dir) - 1)
           name == dir[Len(dir)]
       IN  tree' = [d \in DOMAIN tree \ {dir} |->
                      IF d = parent THEN SelectSeq(tree[d], LAMBDA n : n # name)
                      ELSE tree[d]]
    /\ UNCHANGED <<files, host, call>>

\* Files appear in the app directory's tree and in the directory above it.
WriteFile(dir, name) ==
    /\ call.op = "idle"
    /\ dir \in DOMAIN tree
    /\ Len(dir) >= Len(AppRoot) - 1
    /\ Append(dir, name) \notin files
    /\ Cardinality(files) < MaxFiles
    /\ files' = files \cup {Append(dir, name)}
    /\ UNCHANGED <<tree, host, call>>

RemoveFile(f) ==
    /\ call.op = "idle"
    /\ f \in files
    /\ files' = files \ {f}
    /\ UNCHANGED <<tree, host, call>>

----------------------------------------------------------------------------
(* The calls of the resolver (plugin.ts calls them with the project path   *)
(* and the configuration of create()).                                     *)

ResolveRouteToFile(route) ==
    /\ call.op = "idle"
    /\ call' = [op |-> "direct", route |-> route, failing |-> {},
                res |-> resolveRouteToFile(FS({}), route, ProjectPath, config)]
    /\ UNCHANGED <<files, tree, host>>

\* failing: the directories whose listing throws during this call.
FindRouteTypeWithGroups(route, failing) ==
    /\ call.op = "idle"
    /\ Cardinality(failing) <= 1
    /\ call' = [op |-> "groups", route |-> route, failing |-> failing,
                res |-> findRouteTypeWithGroups(FS(failing), route, ProjectPath, config)]
    /\ UNCHANGED <<files, tree, host>>

\* The caller takes the result; the next call starts afresh.
Return ==
    /\ call.op # "idle"
    /\ call' = Idle
    /\ UNCHANGED <<files, tree, host>>

Next ==
    \/ \E parent \in DOMAIN tree, name \in DirNames : Mkdir(parent, name)
    \/ \E dir \in DOMAIN tree : Rmdir(dir)
    \/ \E dir \in DOMAIN tree, name \in FileNames : WriteFile(dir, name)
    \/ \E f \in files : RemoveFile(f)
    \/ \E route \in Routes : ResolveRouteToFile(route)
    \/ \E route \in Routes, failing \in {{}} \cup {{d} : d \in AppDirs} :
          FindRouteTypeWithGroups(route, failing)
    \/ Return

Spec == Init /\ [][Next]_vars

----------------------------------------------------------------------------
(* The parsing specification: the pure functions of resolver.ts applied to *)
(* every route string made of at most MaxTokens pieces, on a project with  *)
(* no definition file, and on one that holds the .ts definition file of    *)
(* the route in the directories its segments name.                         *)

\* The pieces: separators, a plain character, the escape and its near misses.
Tokens == { <<"/">>, <<"a">>, <<"%", "5", "F">>, <<"%", "5", "f">>,
            <<"%", "2", "F">>, <<"%">>, <<"5", "F">> }

RECURSIVE Flatten(_)
Flatten(ss) == IF ss = <<>> THEN <<>> ELSE Head(ss) \o Flatten(Tail(ss))

RouteStrings == UNION {{Flatten(ts) : ts \in [1..n -> Tokens]} : n \in 0..MaxTokens}

\* The directories down to dir, each listing the next one.
ChainTree(dir) ==
    [d \in {SubSeq(dir, 1, n) : n \in 0..Len(dir)} |->
        IF Len(d) < Len(dir) THEN <<dir[Len(d) + 1]>> ELSE <<>>]

ParseInit ==
    /\ host \in Hosts
    /\ \E r \in RouteStrings :
          /\ call = [op |-> "route", route |-> r]
          /\ \/ files = {} /\ tree = BaseTree(config)
             \/ LET file == buildPossiblePaths(parseRouteSegments(r), ProjectPath, config)[1]
                IN  /\ files = {file}
                    /\ tree = ChainTree(SubSeq(file, 1, Len(file) - 1))

\* The steps every resolution starts with, and the two resolutions.
ParseRoute ==
    /\ call.op = "route"
    /\ call' = [op |-> "parsed", route |-> call.route,
                segments |-> parseRouteSegments(call.route),
                escaped |-> escapedSegmentsOf(parseRouteSegments(call.route)),
                paths |-> buildPossiblePaths(parseRouteSegments(call.route), ProjectPath, config),
                res |-> resolveRouteToFile(FS({}), call.route, ProjectPath, config),
                groups |-> findRouteTypeWithGroups(FS({}), call.route, ProjectPath, config)]
    /\ UNCHANGED <<files, tree, host>>

ParseNext == ParseRoute

SpecParse == ParseInit /\ [][ParseNext]_vars

----------------------------------------------------------------------------
(* Properties. *)

\* The two candidates of direct resolution for the route of the call.
Candidates == buildPossiblePaths(parseRouteSegments(call.route), ProjectPath, config)

DirOf(filePath) == SubSeq(filePath, 1, Len(filePath) - 1)
NameOf(filePath) == filePath[Len(filePath)]

\* C1: extension priority.  resolveRouteToFile returns the .ts candidate with
\* exists = true whenever that file exists, also when the .tsx file exists
\* too, and the .tsx candidate only when .ts is absent and .tsx is present;
\* a path found by the grouping search is the .ts file of its directory
\* whenever that directory holds one.
C1_ExtensionPriority ==
    /\ call.op = "direct" =>
          /\ Candidates[1] \in files => call.res = Resolution(Candidates[1], TRUE)
          /\ (Candidates[1] \notin files /\ Candidates[2] \in files) =>
                call.res = Resolution(Candidates[2], TRUE)
          /\ call.res.filePath = Candidates[2] =>
                Candidates[1] \notin files /\ Candidates[2] \in files /\ call.res.exists
    /\ (call.op = "groups" /\ call.res.found) =>
          LET here == DirOf(call.res.path)
              tsFile == Append(here, routeTypeFile(config, S_ts))
              tsxFile == Append(here, routeTypeFile(config, S_tsx))
          IN  /\ call.res.path \in {tsFile, tsxFile}
              /\ tsFile \in files => call.res.path = tsFile
              /\ call.res.path = tsxFile => tsxFile \in files

\* C1 happens: both files exist and direct resolution answered with .ts.
C1_Witness ==
    /\ call.op = "direct"
    /\ Candidates[1] \in files /\ Candidates[2] \in files
    /\ call.res = Resolution(Candidates[1], TRUE)

\* The directory the route names, written out: the components of the app
\* directory under the project path, then the decoded segments.
PlainDir(segs) == ProjectPath \o Split(config.appDir, {"/"}) \o segs

\* C2: when neither candidate file exists, resolveRouteToFile returns the .ts
\* candidate (projectRoot/appRootDir/decoded segments/{base}.ts) with
\* exists = false; it never returns null.
C2_MissingGivesTsCandidate ==
    call.op = "direct" =>
        /\ ~call.res.isNull
        /\ (Candidates[1] \notin files /\ Candidates[2] \notin files) =>
              /\ ~call.res.exists
              /\ NameOf(call.res.filePath) = config.routeTypeFileName \o <<".", "t", "s">>
              /\ call.res.filePath =
                    PathJoin(<<>>, <<Render(PlainDir(escapedSegmentsOf(parseRouteSegments(call.route)))),
                                    routeTypeFile(config, S_ts)>>)
              /\ (call.route = R_two =>
                    call.res.filePath = PlainDir(<<N_ua, N_ua>>) \o <<routeTypeFile(config, S_ts)>>)

\* C2 happens: a two-segment route with no candidate file, while other
\* definition files exist.
C2_Witness ==
    /\ call.op = "direct" /\ call.route = R_two
    /\ files # {}
    /\ Candidates[1] \notin files /\ Candidates[2] \notin files
    /\ ~call.res.exists

\* The file systems a second run of the same call is compared on: any set of
\* the files below, the directories as they are.
OtherFiles == {Candidates[1], Candidates[2], Append(ProjectPath, routeTypeFile(config, S_ts))}
OtherFS(fs2files) == [FS({}) EXCEPT !.files = fs2files]
SecondRun(fs2files) == resolveRouteToFile(OtherFS(fs2files), call.route, ProjectPath, config)

\* C3 as stated: two runs with the same (route, root, config) over two
\* different file systems return the same filePath.
C3_SamePathOnAnyFileSystem ==
    call.op = "direct" =>
        \A fs2files \in SUBSET OtherFiles : SecondRun(fs2files).filePath = call.res.filePath

\* C3, amended: the two candidate paths depend only on (route, root, config);
\* every run returns one of them, and two runs over file systems that agree
\* on which of the two candidates exist return the same filePath and flag.
C3_PathDependsOnCandidatesOnly ==
    call.op = "direct" =>
        /\ call.res.filePath \in {Candidates[1], Candidates[2]}
        /\ DirOf(Candidates[1]) = DirOf(Candidates[2])
        /\ \A fs2files \in SUBSET OtherFiles :
              /\ SecondRun(fs2files).filePath \in {Candidates[1], Candidates[2]}
              /\ (\A i \in 1..2 : (Candidates[i] \in fs2files) = (Candidates[i] \in files)) =>
                    SecondRun(fs2files) = call.res

\* C3 happens: a run on a file system holding a definition file that is no
\* candidate of the route, and none that is.
C3_Witness ==
    /\ call.op = "direct"
    /\ files # {} /\ Candidates[1] \notin files /\ Candidates[2] \notin files
    /\ call.res.filePath = Candidates[1]

\* A route string with runs of "/" collapsed and a trailing "/" removed.
RECURSIVE Canonical(_)
Canonical(r) ==
    IF r = <<>> THEN <<>>
    ELSE IF Head(r) = "/" /\ (Len(r) = 1 \/ r[2] = "/") THEN Canonical(Tail(r))
    ELSE <<Head(r)>> \o Canonical(Tail(r))

\* C4: for a route starting with "/", the segments are the pieces between
\* the "/" characters with the empty pieces discarded: "/" gives no segment
\* and its candidate directory is root/appRootDir, and routes that differ
\* only by repeated or trailing slashes give the same segments.
C4_SegmentParsing ==
    (call.op = "parsed" /\ StartsWith(call.route, <<"/">>)) =>
        /\ \A i \in 1..Len(call.segments) :
              call.segments[i] # <<>> /\ \A j \in 1..Len(call.segments[i]) : call.segments[i][j] # "/"
        /\ Render(call.segments) = Canonical(call.route)
        /\ call.segments = parseRouteSegments(Canonical(call.route))
        /\ call.route = <<"/">> =>
              /\ call.segments = <<>>
              /\ DirOf(call.paths[1]) = ProjectPath \o Split(config.appDir, {"/"})
              /\ DirOf(call.paths[2]) = ProjectPath \o Split(config.appDir, {"/"})

\* C4 happens: a route with a repeated and a trailing slash parsed to one segment.
C4_Witness ==
    /\ call.op = "parsed"
    /\ call.route = <<"/", "a", "/", "/">>
    /\ call.segments = <<N_a>>

\* d is s with every "%5F" replaced by "_" and every other character kept.
RECURSIVE IsDecoded(_, _)
IsDecoded(s, d) ==
    IF s = <<>> THEN d = <<>>
    ELSE IF StartsWith(s, <<"%", "5", "F">>)
         THEN d # <<>> /\ Head(d) = "_" /\ IsDecoded(SubSeq(s, 4, Len(s)), Tail(d))
    ELSE d # <<>> /\ Head(d) = Head(s) /\ IsDecoded(Tail(s), Tail(d))

\* The directory names of filePath below the app directory.
SegmentDirs(filePath) ==
    SubSeq(filePath, Len(appDirPathOf(ProjectPath, config)) + 1, Len(filePath) - 1)

\* The names are the segments with every "%5F" replaced by "_".
AreDecoded(segments, names) ==
    /\ Len(names) = Len(segments)
    /\ \A i \in 1..Len(segments) : IsDecoded(segments[i], names[i])

\* C5: in each segment every occurrence of "%5F" is replaced by "_" before
\* the path is built, and no other percent sequence ("%5f", "%2F") is
\* changed, in both resolutions: the path resolveRouteToFile returns, and
\* the file findRouteTypeWithGroups finds when the route's file exists,
\* lie in the directories named by the decoded segments.
C5_EscapeDecoding ==
    call.op = "parsed" =>
        /\ Len(call.escaped) = Len(call.segments)
        /\ \A i \in 1..Len(call.segments) : IsDecoded(call.segments[i], call.escaped[i])
        /\ DirOf(call.paths[1]) = PathJoin(appDirPathOf(ProjectPath, config), call.escaped)
        /\ call.route = <<"/", "%", "5", "F", "a">> => call.escaped = << <<"_", "a">> >>
        /\ call.route = <<"/", "%", "5", "F", "%", "5", "F", "a">> =>
              call.escaped = << <<"_", "_", "a">> >>
        /\ call.route = <<"/", "%", "5", "f", "%", "2", "F">> =>
              call.escaped = << <<"%", "5", "f", "%", "2", "F">> >>
        /\ AreDecoded(call.segments, SegmentDirs(call.res.filePath))
        /\ call.res.exists = (files # {})
        /\ call.groups.found = (files # {})
        /\ call.groups.found =>
              /\ call.groups.path \in files
              /\ AreDecoded(call.segments, SegmentDirs(call.groups.path))
              /\ call.groups.path = call.res.filePath
        /\ (files # {} /\ call.route = <<"/", "%", "5", "F", "%", "5", "F", "a">>) =>
              SegmentDirs(call.groups.path) = << <<"_", "_", "a">> >>
        /\ (files # {} /\ call.route = <<"/", "%", "5", "f", "%", "2", "F">>) =>
              SegmentDirs(call.groups.path) = << <<"%", "5", "f", "%", "2", "F">> >>

\* C5 happens: a segment with two escapes was decoded, and the group-aware
\* search found the file in the directory "__a".
C5_Witness ==
    /\ call.op = "parsed"
    /\ call.route = <<"/", "%", "5", "F", "%", "5", "F", "a">>
    /\ call.escaped = << <<"_", "_", "a">> >>
    /\ call.groups.found
    /\ SegmentDirs(call.groups.path) = << <<"_", "_", "a">> >>
    /\ call.res.exists /\ call.res.filePath = call.groups.path

\* The decoded segments of the route of the call.
Segs == escapedSegmentsOf(parseRouteSegments(call.route))

GroupNames == {N_g, N_h}

\* The components of dir below the app root.
BelowAppRoot(dir) == SubSeq(dir, Len(AppRoot) + 1, Len(dir))

DefinitionNames == {routeTypeFile(config, S_ts), routeTypeFile(config, S_tsx)}

\* f lies at appRoot/(g1)/.../(gk)/<segs>/{base}.ts with k >= 1.
StackedUnderGroups(f, segs) ==
    LET dir == DirOf(f)
        k == Len(dir) - Len(AppRoot) - Len(segs)
    IN  /\ NameOf(f) = routeTypeFile(config, S_ts)
        /\ IsPrefix(AppRoot, dir)
        /\ k >= 1
        /\ \A i \in 1..k : dir[Len(AppRoot) + i] \in GroupNames
        /\ SubSeq(dir, Len(AppRoot) + k + 1, Len(dir)) = segs

\* C6 as stated (on a host whose listings do not fail): when the only
\* definition file lies at appRoot/(g1)/.../(gk)/<segments>/{base}.ts,
\* k >= 1, resolveRouteToFile returns exists = false and
\* findRouteTypeWithGroups returns that file's path.
C6_StackedGroupsFound ==
    (call.op \in {"direct", "groups"} /\ call.failing = {}) =>
        \A f \in files :
            (files = {f} /\ StackedUnderGroups(f, Segs)) =>
                /\ call.op = "direct" => ~call.res.exists
                /\ call.op = "groups" => call.res.found /\ call.res.path = f

\* f is a definition file whose directories below the app root are the
\* segments with one or more group directories interposed anywhere.
GroupsInterposed(f, segs) ==
    LET dir == DirOf(f)
    IN  /\ NameOf(f) \in DefinitionNames
        /\ IsPrefix(AppRoot, dir)
        /\ SelectSeq(BelowAppRoot(dir), LAMBDA n : n \notin GroupNames) = segs
        /\ Len(BelowAppRoot(dir)) > Len(segs)

\* C7 as stated (on a host whose listings do not fail):
\* findRouteTypeWithGroups finds the definition file wherever group
\* directories are interposed: before the first segment directory, between
\* two, and after the last one (the root route in a group included).
C7_GroupsAnywhereFound ==
    (call.op = "groups" /\ call.failing = {}) =>
        \A f \in files :
            (files = {f} /\ GroupsInterposed(f, Segs)) =>
                call.res.found /\ call.res.path = f

\* C8 as stated: for every path findRouteTypeWithGroups returns, the
\* directories between the app root and the file, without those entered by
\* the group rule, are the decoded segments in order.
C8_GroupsAreNotSegments ==
    (call.op = "groups" /\ call.res.found) =>
        LET dirs == BelowAppRoot(DirOf(call.res.path))
            kept == {i \in 1..Len(dirs) : call.res.via[i] = "segment"}
        IN  /\ IsPrefix(AppRoot, DirOf(call.res.path))
            /\ Len(call.res.via) = Len(dirs)
            /\ Len(dirs) - Cardinality({i \in 1..Len(dirs) : call.res.via[i] = "group"}) = Len(Segs)
            /\ Cardinality(kept) = Len(Segs)
            /\ \A i \in kept : dirs[i] = Segs[Cardinality({j \in kept : j <= i})]

\* The directories the grouping search can end in: from dir with the
\* segments segs left, through the directory named by the next segment or
\* through any route-group subdirectory.
RECURSIVE SearchSpace(_, _)
SearchSpace(dir, segs) ==
    IF segs = <<>> THEN {dir}
    ELSE LET direct == PathJoin(dir, <<Head(segs)>>)
         IN  (IF direct \in DOMAIN tree THEN SearchSpace(direct, Tail(segs)) ELSE {})
             \cup UNION { SearchSpace(Append(dir, tree[dir][i]), segs) :
                            i \in {j \in 1..Len(tree[dir]) : tree[dir][j] \in GroupNames} }

\* C9: findRouteTypeWithGroups returns null when no definition file of the
\* route exists in any directory the search can reach (an empty app
\* directory, no file at all).
C9_NullWhenNothingToFind ==
    call.op = "groups" =>
        ((\A dir \in SearchSpace(AppRoot, Segs), n \in DefinitionNames : Append(dir, n) \notin files)
            => ~call.res.found /\ ~call.res.raised)

\* C9 happens: groups and a directory named by the segment exist, a
\* definition file exists elsewhere, and the search returned null.
C9_Witness ==
    /\ call.op = "groups" /\ call.route = R_esc /\ call.failing = {}
    /\ files # {}
    /\ Cardinality(SearchSpace(AppRoot, Segs)) >= 2
    /\ ~call.res.found

\* The file system of the call with every failing listing answered by the
\* empty listing instead.
QuietFS == [FS({}) EXCEPT !.hushed = call.failing]

\* C10: a listing that throws during findRouteTypeWithGroups never leaves
\* the call as an exception, and the call returns what it would return if
\* that directory's listing were empty.
C10_ListingFailureIsEmptyListing ==
    call.op = "groups" =>
        /\ ~call.res.raised
        /\ LET quiet == findRouteTypeWithGroups(QuietFS, call.route, ProjectPath, config)
           IN  call.res.found = quiet.found /\ call.res.path = quiet.path

\* C10 happens: the listing of the first group threw, and the file was
\* found in the group listed after it.
C10_Witness ==
    /\ call.op = "groups"
    /\ tree[AppRoot] = <<N_g, N_h>>
    /\ call.failing = {Append(AppRoot, N_g)}
    /\ call.res.found
    /\ IsPrefix(Append(AppRoot, N_h), call.res.path)

\* C16 as stated: every path resolveRouteToFile returns, every path
\* findRouteTypeWithGroups returns and every directory it lists lies under
\* projectRoot/appRootDir, whatever the segments of the route are.
C16_StaysUnderAppRoot ==
    /\ call.op = "direct" => IsPrefix(AppRoot, call.res.filePath)
    /\ call.op = "groups" =>
          /\ call.res.found => IsPrefix(AppRoot, call.res.path)
          /\ \A d \in call.res.listed : IsPrefix(AppRoot, d)

\* The search below the directory named after the first segment of the call.
FirstDirect == PathJoin(AppRoot, <<Head(Segs)>>)
BelowFirstDirect == searchDir(FS(call.failing), FirstDirect, Tail(Segs), config)

\* d is a route-group directory of dir, or lies below one.
InGroupOf(dir, d) == \E g \in GroupNames : IsPrefix(Append(dir, g), d)

\* C19: when the subdirectory named after the next segment exists and the
\* search below it yields a file, that file is returned and neither is the
\* current directory listed nor any of its group directories explored, also
\* when a sibling group holds a matching file; this holds at the app root
\* and at every directory of the returned path that was left through the
\* segment's subdirectory.
C19_DirectSubdirectoryFirst ==
    (call.op = "groups" /\ Segs # <<>>) =>
        /\ (FirstDirect \in DOMAIN tree /\ BelowFirstDirect.found) =>
              /\ call.res.found
              /\ call.res.path = BelowFirstDirect.path
              /\ call.res.via[1] = "segment"
              /\ AppRoot \notin call.res.listed
              /\ \A d \in call.res.listed : ~InGroupOf(AppRoot, d)
        /\ (call.res.found /\ IsPrefix(AppRoot, call.res.path)
                /\ Len(call.res.via) = Len(BelowAppRoot(DirOf(call.res.path)))) =>
              \A i \in 1..Len(call.res.via) :
                  call.res.via[i] = "segment" =>
                      LET cur == SubSeq(call.res.path, 1, Len(AppRoot) + i - 1)
                      IN  /\ cur \notin call.res.listed
                          /\ \A d \in call.res.listed : ~InGroupOf(cur, d)

\* C19 happens: the file of the direct path was returned although a
\* sibling group holds a matching file, and nothing was listed.
C19_Witness ==
    /\ call.op = "groups" /\ call.route = R_esc
    /\ Append(Append(AppRoot, N_ua), routeTypeFile(config, S_ts)) \in files
    /\ \E g \in GroupNames :
          Append(Append(Append(AppRoot, g), N_ua), routeTypeFile(config, S_ts)) \in files
    /\ call.res.found
    /\ call.res.path = Append(Append(AppRoot, N_ua), routeTypeFile(config, S_ts))
    /\ call.res.listed = {}

\* The route groups of the app root as the call sees them, in listing order.
RootGroups ==
    IF AppRoot \in call.failing THEN <<>>
    ELSE SelectSeq(tree[AppRoot], LAMBDA n : n \in GroupNames)

\* The search of the i-th route group of the app root with all segments.
InRootGroup(i) == searchDir(FS(call.failing), Append(AppRoot, RootGroups[i]), Segs, config)

\* C20: when the subdirectory named after the next segment exists but the
\* search below it finds no file, the route groups of the current directory
\* are explored with the full segment list, and the match of the first
\* group that has one is returned.
C20_BacktrackIntoGroups ==
    (call.op = "groups" /\ Segs # <<>>) =>
        LET hits == {i \in 1..Len(RootGroups) : InRootGroup(i).found}
        IN  (FirstDirect \in DOMAIN tree /\ ~BelowFirstDirect.found /\ hits # {}) =>
                /\ call.res.found
                /\ call.res.path = InRootGroup(CHOOSE i \in hits : \A j \in hits : i <= j).path
                /\ call.res.via[1] = "group"
                /\ AppRoot \in call.res.listed

\* C20 happens: the segment's directory exists without a definition file,
\* and the file below a route group was returned.
C20_Witness ==
    /\ call.op = "groups" /\ call.route = R_esc
    /\ Append(AppRoot, N_ua) \in DOMAIN tree
    /\ ~BelowFirstDirect.found
    /\ call.res.found
    /\ call.res.via = <<"group", "segment">>
    /\ NameOf(DirOf(call.res.path)) = N_ua

----------------------------------------------------------------------------
(* The call-sequence specification: resolver calls one after the other,    *)
(* with the files and one route group of the app directory changing        *)
(* between them; every call carries the call made before it.               *)

NoCall == [op |-> "none"]

InitCalls ==
    /\ host \in Hosts
    /\ files = {}
    /\ tree = BaseTree(config)
    /\ call = [op |-> "idle", before |-> NoCall]

\* Mutant of resolutionOf: a call with the arguments of the call before it
\* is answered with the result kept from that call.
resolutionOf_Cached(kind, route, failing) ==
    IF call.before.op = kind /\ call.before.route = route /\ call.before.failing = failing
    THEN call.before.res
    ELSE IF kind = "direct"
         THEN resolveRouteToFile(FS({}), route, ProjectPath, config)
         ELSE findRouteTypeWithGroups(FS(failing), route, ProjectPath, config)

\* resolveRouteToFile(typescript, route, projectPath, config) and
\* findRouteTypeWithGroups(typescript, route, projectPath, config): each call
\* asks typescript.sys afresh.
resolutionOf(kind, route, failing) ==
    IF kind = "direct"
    THEN resolveRouteToFile(FS({}), route, ProjectPath, config)
    ELSE findRouteTypeWithGroups(FS(failing), route, ProjectPath, config)

CallAgain(kind, route, failing) ==
    /\ call.op = "idle"
    /\ kind = "direct" => failing = {}
    /\ call' = [op |-> kind, route |-> route, failing |-> failing,
                res |-> resolutionOf(kind, route, failing),
                before |-> call.before]
    /\ UNCHANGED <<files, tree, host>>

\* The caller takes the result, which becomes the call made before.
ReturnKeeping ==
    /\ call.op \in {"direct", "groups"}
    /\ call' = [op |-> "idle",
                before |-> [op |-> call.op, route |-> call.route,
                            failing |-> call.failing, res |-> call.res]]
    /\ UNCHANGED <<files, tree, host>>

NextCalls ==
    \/ Mkdir(AppRoot, N_g)
    \/ (Append(AppRoot, N_g) \in DOMAIN tree /\ Rmdir(Append(AppRoot, N_g)))
    \/ \E dir \in DOMAIN tree, name \in FileNames : WriteFile(dir, name)
    \/ \E f \in files : RemoveFile(f)
    \/ \E kind \in {"direct", "groups"}, route \in Routes, failing \in {{}, {AppRoot}} :
          CallAgain(kind, route, failing)
    \/ ReturnKeeping

SpecCalls == InitCalls /\ [][NextCalls]_vars

\* C17: a step that makes a resolver call leaves the files and directories
\* as they are, and the result of the call is the one computed from the
\* file system of that moment: the exists flag says whether the returned
\* path is a file now, a path found by the grouping search is a file now,
\* whatever the call before has seen.
C17_NoCaching ==
    [][(call.op = "idle" /\ call'.op \in {"direct", "groups"}) =>
          /\ files' = files /\ tree' = tree
          /\ call'.op = "direct" =>
                /\ call'.res = resolveRouteToFile(FS({}), call'.route, ProjectPath, config)
                /\ call'.res.exists = (call'.res.filePath \in files)
          /\ call'.op = "groups" =>
                /\ call'.res =
                      findRouteTypeWithGroups(FS(call'.failing), call'.route, ProjectPath, config)
                /\ call'.res.found => call'.res.path \in files]_vars

\* C17 happens: the same call was made twice, the file was deleted in
\* between, and the second call says that it does not exist.
C17_Witness ==
    /\ call.op \in {"direct", "groups"}
    /\ call.before.op = call.op
    /\ call.before.route = call.route
    /\ call.before.failing = call.failing
    /\ IF call.op = "direct"
       THEN call.before.res.exists /\ ~call.res.exists
                /\ call.res.filePath = call.before.res.filePath
       ELSE call.before.res.found /\ ~call.res.found

----------------------------------------------------------------------------
(* The syntax tree the host hands to the detector (ts.SourceFile).         *)
(*                                                                         *)
(* A node is a record: its kind, its role (the property of its parent that *)
(* holds it: "name", "initializer", "expression", ...), and either the     *)
(* text of a token with the number of blanks before it (lead), or its      *)
(* parts in source order.  The parts of a node are its child nodes and the *)
(* punctuation between them; punctuation is part of the text but is no     *)
(* child node.  value is the text property of an identifier or a literal.  *)

MaxLead == 1        \* blanks before the value of a property and at the end of the text

S_path == <<"$", "p", "a", "t", "h">>
S_name == <<"n", "a", "m", "e">>
S_lib == <<"l", "i", "b">>
S_other == <<"o", "t", "h", "e", "r">>
S_const == <<"c", "o", "n", "s", "t">>

Leaf(kind, role, lead, text, value) ==
    [kind |-> kind, role |-> role, lead |-> lead, text |-> text, value |-> value,
     parts |-> <<>>]
Inner(kind, role, parts) ==
    [kind |-> kind, role |-> role, lead |-> 0, text |-> <<>>, value |-> <<>>,
     parts |-> parts]

Punctuation(lead, text) == Leaf("Punctuation", "", lead, text, <<>>)
Identifier(role, lead, name) == Leaf("Identifier", role, lead, name, name)
StringLiteral(role, lead, quote, value) ==
    Leaf("StringLiteral", role, lead, <<quote>> \o value \o <<quote>>, value)
\* The back quote character, one character of the text.
BackQuote == "backquote"
NoSubstitutionTemplateLiteral(role, lead, value) ==
    Leaf("NoSubstitutionTemplateLiteral", role, lead,
         <<BackQuote>> \o value \o <<BackQuote>>, value)
NumericLiteral(role, lead, text) == Leaf("NumericLiteral", role, lead, text, text)

\* name: initializer
PropertyAssignment(name, initializer) ==
    Inner("PropertyAssignment", "properties", <<name, Punctuation(0, <<":">>), initializer>>)

\* The "=" of a shorthand property: the node parent.equalsToken, which
\* forEachChild visits between the name and the initializer.
EqualsToken(lead) == Leaf("EqualsToken", "equalsToken", lead, <<"=">>, <<>>)

\* name = objectAssignmentInitializer
ShorthandPropertyAssignment(name, initializer) ==
    Inner("ShorthandPropertyAssignment", "properties",
          <<name, EqualsToken(1), initializer>>)

\* { property } and { property, property }
ObjectLiteralExpression(role, properties) ==
    Inner("ObjectLiteralExpression", role,
          <<Punctuation(0, <<"{">>)>>
          \o (IF Len(properties) = 1 THEN properties
              ELSE <<properties[1], Punctuation(0, <<",">>), properties[2]>>)
          \o <<Punctuation(1, <<"}">>)>>)

\* expression(argument)
CallExpression(role, expression, argument) ==
    Inner("CallExpression", role,
          <<expression, Punctuation(0, <<"(">>), argument, Punctuation(0, <<")">>)>>)

\* expression.name
PropertyAccessExpression(role, expression, name) ==
    Inner("PropertyAccessExpression", role,
          <<Identifier("expression", 0, expression), Punctuation(0, <<".">>),
            Identifier("name", 0, name)>>)

\* (expression)
ParenthesizedExpression(role, expression) ==
    Inner("ParenthesizedExpression", role,
          <<Punctuation(0, <<"(">>), expression, Punctuation(0, <<")">>)>>)

ExpressionStatement(expression) == Inner("ExpressionStatement", "statements", <<expression>>)

\* const x = initializer
VariableStatement(initializer) ==
    Inner("VariableStatement", "statements",
          << Inner("VariableDeclarationList", "declarationList",
                   << Punctuation(0, S_const),
                      Inner("VariableDeclaration", "declarations",
                            << Identifier("name", 1, <<"x">>), Punctuation(1, <<"=">>),
                               initializer >>) >>) >>)

\* One statement, then the end of the text after `trailing` blanks.
SourceFile(statement, trailing) ==
    Inner("SourceFile", "", <<statement, Leaf("EndOfFileToken", "endOfFileToken", trailing, <<>>, <<>>)>>)

Blanks(n) == [i \in 1..n |-> " "]

\* sourceFile.text: the tokens with their leading blanks, in source order
RECURSIVE SourceText(_)
RECURSIVE SourceTextOfParts(_, _)
SourceTextOfParts(parts, i) ==
    IF i > Len(parts) THEN <<>>
    ELSE SourceText(parts[i]) \o SourceTextOfParts(parts, i + 1)
SourceText(node) ==
    IF node.parts = <<>> THEN Blanks(node.lead) \o node.text
    ELSE SourceTextOfParts(node.parts, 1)

\* node.end - node.pos
FullWidth(node) == Len(SourceText(node))

\* The trivia skipped by node.getStart(sourceFile): the blanks before the first token.
RECURSIVE LeadingTrivia(_)
LeadingTrivia(node) ==
    IF node.parts = <<>> THEN node.lead ELSE LeadingTrivia(node.parts[1])

\* A node of a source file is referred to by its path from the root: the
\* indexes of the parts to descend through.
RECURSIVE NodeAt(_, _)
NodeAt(node, path) ==
    IF path = <<>> THEN node ELSE NodeAt(node.parts[Head(path)], Tail(path))

Front(path) == SubSeq(path, 1, Len(path) - 1)

\* node.pos: the end of the token before the node
RECURSIVE PosOf(_, _)
PosOf(sourceFile, path) ==
    IF path = <<>> THEN 0
    ELSE PosOf(sourceFile, Front(path))
         + Len(SourceTextOfParts(SubSeq(NodeAt(sourceFile, Front(path)).parts,
                                        1, path[Len(path)] - 1), 1))

\* Mutant of getStart: node.pos, the leading trivia included.
getStart_FullStart(sourceFile, path) == PosOf(sourceFile, path)

\* node.getStart(sourceFile), node.getEnd()
getStart(sourceFile, path) == PosOf(sourceFile, path) + LeadingTrivia(NodeAt(sourceFile, path))
getEnd(sourceFile, path) == PosOf(sourceFile, path) + FullWidth(NodeAt(sourceFile, path))

----------------------------------------------------------------------------
(* detector.ts *)

\* A node, or undefined.
Undefined == [defined |-> FALSE, path |-> <<>>]
NodeRef(path) == [defined |-> TRUE, path |-> path]

\* Mutant of contains: the position just after the node counts as inside.
contains_ThroughEnd(sourceFile, path, position) ==
    position >= getStart(sourceFile, path) /\ position <= getEnd(sourceFile, path)

\* Mutant of contains: the first character of the node is left out.
contains_AfterStart(sourceFile, path, position) ==
    position > getStart(sourceFile, path) /\ position < getEnd(sourceFile, path)

\* position >= node.getStart(sourceFile) && position < node.getEnd()
contains(sourceFile, path, position) ==
    position >= getStart(sourceFile, path) /\ position < getEnd(sourceFile, path)

\* find(node) of findTokenAtPosition; forEachChild(sourceFile, path, position, i)
\* is typescript.forEachChild(node, find) from part i on: the child nodes
\* in source order, the first defined result.
RECURSIVE find(_, _, _)
RECURSIVE forEachChild(_, _, _, _)
forEachChild(sourceFile, path, position, i) ==
    LET parts == NodeAt(sourceFile, path).parts
    IN  IF i > Len(parts) THEN Undefined
        ELSE IF parts[i].kind = "Punctuation"
             THEN forEachChild(sourceFile, path, position, i + 1)
        ELSE LET result == find(sourceFile, Append(path, i), position)
             IN  IF result.defined THEN result
                 ELSE forEachChild(sourceFile, path, position, i + 1)

find(sourceFile, path, position) ==
    IF contains(sourceFile, path, position)
    THEN LET childResult == forEachChild(sourceFile, path, position, 1)
         IN  IF childResult.defined THEN childResult ELSE NodeRef(path)
    ELSE Undefined

\* findTokenAtPosition(typescript, sourceFile, position)
findTokenAtPosition(sourceFile, position) == find(sourceFile, <<>>, position)

\* The part of a node held by one of its properties (parent.name, current.expression).
PartOf(node, role) ==
    node.parts[CHOOSE i \in 1..Len(node.parts) : node.parts[i].role = role]

\* Mutant of isRoutePropertyValue: the value of any property is taken.
isRoutePropertyValue_AnyName(sourceFile, path) ==
    NodeAt(sourceFile, Front(path)).kind \in {"PropertyAssignment", "ShorthandPropertyAssignment"}

\* isRoutePropertyValue(typescript, node)
isRoutePropertyValue(sourceFile, path) ==
    LET parent == NodeAt(sourceFile, Front(path))
    IN  \/ /\ parent.kind = "PropertyAssignment"
           /\ PartOf(parent, "name").kind = "Identifier"
           /\ PartOf(parent, "name").value = S_route
        \/ /\ parent.kind = "ShorthandPropertyAssignment"
           /\ PartOf(parent, "name").value = S_route

\* Mutant of isWithinPathCall: a call to any function will do.
RECURSIVE isWithinPathCall_AnyCall(_, _)
isWithinPathCall_AnyCall(sourceFile, path) ==
    IF NodeAt(sourceFile, path).kind = "CallExpression" THEN TRUE
    ELSE IF path = <<>> THEN FALSE
    ELSE isWithinPathCall_AnyCall(sourceFile, Front(path))

\* Mutant of isWithinPathCall: only the nearest enclosing call is looked at.
RECURSIVE isWithinPathCall_NearestCall(_, _)
isWithinPathCall_NearestCall(sourceFile, path) ==
    LET current == NodeAt(sourceFile, path)
    IN  IF current.kind = "CallExpression"
        THEN LET expression == PartOf(current, "expression")
             IN  \/ expression.kind = "Identifier" /\ expression.value = S_path
                 \/ /\ expression.kind = "PropertyAccessExpression"
                    /\ PartOf(expression, "name").value = S_path
        ELSE IF path = <<>> THEN FALSE
        ELSE isWithinPathCall_NearestCall(sourceFile, Front(path))

\* isWithinPathCall(typescript, node): current = node; while (current) ...
RECURSIVE isWithinPathCall(_, _)
isWithinPathCall(sourceFile, path) ==
    LET current == NodeAt(sourceFile, path)
        isPathCall ==
            /\ current.kind = "CallExpression"
            /\ LET expression == PartOf(current, "expression")
               IN  \/ expression.kind = "Identifier" /\ expression.value = S_path
                   \/ /\ expression.kind = "PropertyAccessExpression"
                      /\ PartOf(expression, "name").value = S_path
    IN  IF isPathCall THEN TRUE
        ELSE IF path = <<>> THEN FALSE
        ELSE isWithinPathCall(sourceFile, Front(path))

\* Mutant of isRouteFormat: any text is taken.
isRouteFormat_Any(routeValue) == TRUE

\* routeValue.startsWith("/")
isRouteFormat(routeValue) == StartsWith(routeValue, <<"/">>)

\* The values detectRouteString returns: a RouteStringInfo, or null.
RouteStringInfo(route, start, end) ==
    [isNull |-> FALSE, route |-> route, start |-> start, end |-> end,
     span |-> [start |-> start, length |-> end - start]]
NullInfo ==
    [isNull |-> TRUE, route |-> <<>>, start |-> 0, end |-> 0,
     span |-> [start |-> 0, length |-> 0]]

\* Mutant of detectRouteString: a template literal without substitutions
\* is taken like a string literal.
detectRouteString_AnyLiteral(sourceFile, position) ==
    LET token == findTokenAtPosition(sourceFile, position)
    IN  IF ~token.defined THEN NullInfo
        ELSE IF NodeAt(sourceFile, token.path).kind
                    \notin {"StringLiteral", "NoSubstitutionTemplateLiteral"} THEN NullInfo
        ELSE IF ~isRoutePropertyValue(sourceFile, token.path) THEN NullInfo
        ELSE IF ~isWithinPathCall(sourceFile, token.path) THEN NullInfo
        ELSE LET routeValue == NodeAt(sourceFile, token.path).value
             IN  IF ~isRouteFormat(routeValue) THEN NullInfo
                 ELSE RouteStringInfo(routeValue,
                                      getStart(sourceFile, token.path),
                                      getEnd(sourceFile, token.path))

\* detectRouteString(typescript, sourceFile, position)
detectRouteString(sourceFile, position) ==
    LET token == findTokenAtPosition(sourceFile, position)
    IN  IF ~token.defined THEN NullInfo
        ELSE IF NodeAt(sourceFile, token.path).kind # "StringLiteral" THEN NullInfo
        ELSE IF ~isRoutePropertyValue(sourceFile, token.path) THEN NullInfo
        ELSE IF ~isWithinPathCall(sourceFile, token.path) THEN NullInfo
        ELSE LET routeValue == NodeAt(sourceFile, token.path).value
             IN  IF ~isRouteFormat(routeValue) THEN NullInfo
                 ELSE RouteStringInfo(routeValue,
                                      getStart(sourceFile, token.path),
                                      getEnd(sourceFile, token.path))

----------------------------------------------------------------------------
(* The detection specification: detectRouteString at every position of    *)
(* the source files below, and one position before and two after the text. *)

\* The values written in the source: string literals in both quotes, with
\* and without the leading "/", a template literal, an identifier and a
\* number.
Values ==
    { [kind |-> "StringLiteral", quote |-> "\"", value |-> <<"/", "a">>],
      [kind |-> "StringLiteral", quote |-> "'", value |-> <<"/", "a">>],
      [kind |-> "StringLiteral", quote |-> "\"", value |-> <<"/">>],
      [kind |-> "StringLiteral", quote |-> "\"", value |-> <<"a">>],
      [kind |-> "StringLiteral", quote |-> "\"", value |-> <<>>],
      [kind |-> "NoSubstitutionTemplateLiteral", quote |-> BackQuote, value |-> <<"/", "a">>],
      [kind |-> "Identifier", quote |-> "", value |-> <<"r">>],
      [kind |-> "NumericLiteral", quote |-> "", value |-> <<"4", "2">>] }

ValueNode(v, role, lead) ==
    IF v.kind = "StringLiteral" THEN StringLiteral(role, lead, v.quote, v.value)
    ELSE IF v.kind = "NoSubstitutionTemplateLiteral"
         THEN NoSubstitutionTemplateLiteral(role, lead, v.value)
    ELSE IF v.kind = "NumericLiteral" THEN NumericLiteral(role, lead, v.value)
    ELSE Identifier(role, lead, v.value)

\* How the value is bound: `name: value`, `"name": value`, `name = value`
\* (shorthand), inside a nested object, next to a second property, or not
\* bound to a property at all.
Bindings ==
    { [how |-> "assign", prop |-> S_route],
      [how |-> "assign", prop |-> S_name],
      [how |-> "assign", prop |-> S_route \o <<"s">>],
      [how |-> "quoted", prop |-> S_route],
      [how |-> "shorthand", prop |-> S_route],
      [how |-> "shorthand", prop |-> S_name],
      [how |-> "nested", prop |-> S_route],
      [how |-> "pair", prop |-> S_route],
      [how |-> "bare", prop |-> <<>>] }

\* The second property of a pair: name: "/a"
SecondProperty ==
    PropertyAssignment(Identifier("name", 1, S_name),
                       StringLiteral("initializer", 1, "\"", <<"/", "a">>))

\* The expression holding the value, as the `role` of its parent.
Bound(b, v, lead, role) ==
    LET named == PropertyAssignment(Identifier("name", 1, b.prop),
                                    ValueNode(v, "initializer", lead))
    IN  IF b.how = "bare" THEN ValueNode(v, role, lead)
        ELSE IF b.how = "assign" THEN ObjectLiteralExpression(role, <<named>>)
        ELSE IF b.how = "quoted"
             THEN ObjectLiteralExpression(role,
                      << PropertyAssignment(StringLiteral("name", 1, "\"", b.prop),
                                            ValueNode(v, "initializer", lead)) >>)
        ELSE IF b.how = "shorthand"
             THEN ObjectLiteralExpression(role,
                      << ShorthandPropertyAssignment(
                             Identifier("name", 1, b.prop),
                             ValueNode(v, "objectAssignmentInitializer", lead)) >>)
        ELSE IF b.how = "nested"
             THEN ObjectLiteralExpression(role,
                      << PropertyAssignment(
                             Identifier("name", 1, S_name),
                             ObjectLiteralExpression("initializer", <<named>>)) >>)
        ELSE ObjectLiteralExpression(role, <<named, SecondProperty>>)

\* Where the expression stands: the argument of a call of $path, lib.$path,
\* other or $path.other, of a call inside or around a call of $path, in
\* parentheses, or the initializer of a constant.
Contexts ==
    { "$path(_)", "lib.$path(_)", "other(_)", "$path.other(_)",
      "$path(other(_))", "other($path(_))", "$path((_))", "const x = _" }

WithinPath == {"$path(_)", "lib.$path(_)", "$path(other(_))", "other($path(_))", "$path((_))"}

Statement(c, b, v, lead) ==
    LET argument == Bound(b, v, lead, "arguments")
        path == Identifier("expression", 0, S_path)
        other == Identifier("expression", 0, S_other)
    IN  IF c = "$path(_)" THEN ExpressionStatement(CallExpression("expression", path, argument))
        ELSE IF c = "lib.$path(_)"
             THEN ExpressionStatement(CallExpression("expression",
                      PropertyAccessExpression("expression", S_lib, S_path), argument))
        ELSE IF c = "other(_)"
             THEN ExpressionStatement(CallExpression("expression", other, argument))
        ELSE IF c = "$path.other(_)"
             THEN ExpressionStatement(CallExpression("expression",
                      PropertyAccessExpression("expression", S_path, S_other), argument))
        ELSE IF c = "$path(other(_))"
             THEN ExpressionStatement(CallExpression("expression", path,
                      CallExpression("arguments", other, argument)))
        ELSE IF c = "other($path(_))"
             THEN ExpressionStatement(CallExpression("expression", other,
                      CallExpression("arguments", path, argument)))
        ELSE IF c = "$path((_))"
             THEN ExpressionStatement(CallExpression("expression", path,
                      ParenthesizedExpression("arguments", Bound(b, v, lead, "expression"))))
        ELSE VariableStatement(Bound(b, v, lead, "initializer"))

\* A source file with what was written into it: the context, the binding
\* and the value, which stands after `lead` blanks.
Document(c, b, v, lead) ==
    LET sourceFile == SourceFile(Statement(c, b, v, lead), lead)
    IN  [sourceFile |-> sourceFile, text |-> SourceText(sourceFile),
         context |-> c, binding |-> b, value |-> v, lead |-> lead]

InitDetect ==
    /\ host \in {h \in Hosts : h.config = DEFAULT_CONFIG}
    /\ files = {}
    /\ tree = BaseTree(config)
    /\ \E c \in Contexts, b \in Bindings, v \in Values, lead \in 0..MaxLead :
          LET doc == Document(c, b, v, lead)
          IN  \E position \in (0 - 1)..(Len(doc.text) + 1) :
                  call = [op |-> "request", doc |-> doc, position |-> position]

DetectRouteString ==
    /\ call.op = "request"
    /\ call' = [op |-> "detected", doc |-> call.doc, position |-> call.position,
                res |-> detectRouteString(call.doc.sourceFile, call.position)]
    /\ UNCHANGED <<files, tree, host>>

NextDetect == DetectRouteString

SpecDetect == InitDetect /\ [][NextDetect]_vars

----------------------------------------------------------------------------
(* Properties of the detector, stated on the text of the source file and   *)
(* on what was written into it.                                            *)

QuoteCharacters == {"\"", "'", BackQuote}

\* The quoted pieces of a text in source order, each from its opening quote
\* (start, counted from 0) to just after its closing quote (end).
RECURSIVE QuotedFrom(_, _)
QuotedFrom(text, i) ==
    IF i > Len(text) THEN <<>>
    ELSE IF text[i] \in QuoteCharacters
         THEN LET j == CHOOSE j \in (i + 1)..Len(text) :
                           /\ text[j] = text[i]
                           /\ \A k \in (i + 1)..(j - 1) : text[k] # text[i]
              IN  <<[start |-> i - 1, end |-> j]>> \o QuotedFrom(text, j + 1)
    ELSE QuotedFrom(text, i + 1)

Quoted == QuotedFrom(call.doc.text, 1)

\* What the quoted pieces of the document are, in source order: the name of
\* a property or a value, the property the value is bound to (if any), the
\* kind of literal and its content.
Written ==
    LET b == call.doc.binding
        v == call.doc.value
    IN  (IF b.how = "quoted"
         THEN <<[part |-> "name", bound |-> FALSE, prop |-> <<>>,
                 kind |-> "StringLiteral", value |-> b.prop]>>
         ELSE <<>>)
        \o (IF v.kind \notin {"Identifier", "NumericLiteral"}
            THEN <<[part |-> "value", bound |-> b.how # "bare", prop |-> b.prop,
                    kind |-> v.kind, value |-> v.value]>>
            ELSE <<>>)
        \o (IF b.how = "pair"
            THEN <<[part |-> "value", bound |-> TRUE, prop |-> S_name,
                    kind |-> "StringLiteral", value |-> <<"/", "a">>]>>
            ELSE <<>>)

\* The quoted piece the position of the call lies in (0: none).
Pointed ==
    LET hits == {k \in 1..Len(Quoted) :
                    Quoted[k].start <= call.position /\ call.position < Quoted[k].end}
    IN  IF hits = {} THEN 0 ELSE CHOOSE k \in hits : TRUE

Detected == call.op = "detected" /\ ~call.res.isNull

\* C11: a literal is accepted only if it is the value bound to a property
\* named exactly route; a literal bound to a property of another name
\* inside a $path call gives null.
C11_OnlyRouteProperty ==
    call.op = "detected" =>
        /\ Len(Written) = Len(Quoted)
        /\ ~call.res.isNull =>
              /\ Pointed # 0
              /\ Written[Pointed].part = "value"
              /\ Written[Pointed].bound
              /\ Written[Pointed].prop = S_route
              /\ call.res.route = Written[Pointed].value
        /\ (Pointed # 0 /\ Written[Pointed].bound /\ Written[Pointed].prop # S_route) =>
              call.res.isNull

\* C11 happens: in $path({ route: "/a", name: "/a" }) the position is in
\* the literal bound to name, and the result is null.
C11_Witness ==
    /\ call.op = "detected"
    /\ call.doc.context = "$path(_)" /\ call.doc.binding.how = "pair"
    /\ call.doc.value.kind = "StringLiteral"
    /\ Pointed = 2
    /\ call.res.isNull

\* C12: a literal is accepted only if a call of $path or of a member named
\* $path is among its ancestors; a route literal in a plain assignment or
\* in a call of another function gives null.
C12_OnlyWithinPathCall ==
    call.op = "detected" =>
        /\ ~call.res.isNull => call.doc.context \in WithinPath
        /\ call.doc.context \in {"other(_)", "$path.other(_)", "const x = _"} => call.res.isNull

\* C12 happens: the position is in the literal of other({ route: "/a" }),
\* and the result is null.
C12_Witness ==
    /\ call.op = "detected"
    /\ call.doc.context = "other(_)"
    /\ call.doc.binding = [how |-> "assign", prop |-> S_route]
    /\ call.doc.value = [kind |-> "StringLiteral", quote |-> "\"", value |-> <<"/", "a">>]
    /\ Pointed = 1
    /\ call.res.isNull

\* C13: a literal whose text does not start with "/" gives null, so every
\* route returned starts with "/".
C13_RouteStartsWithSlash ==
    call.op = "detected" =>
        /\ ~call.res.isNull => (call.res.route # <<>> /\ Head(call.res.route) = "/")
        /\ (Pointed # 0 /\ (Written[Pointed].value = <<>> \/ Head(Written[Pointed].value) # "/"))
              => call.res.isNull

\* C13 happens: the position is in the literal of $path({ route: "a" }),
\* and the result is null.
C13_Witness ==
    /\ call.op = "detected"
    /\ call.doc.context = "$path(_)"
    /\ call.doc.binding = [how |-> "assign", prop |-> S_route]
    /\ call.doc.value = [kind |-> "StringLiteral", quote |-> "\"", value |-> <<"a">>]
    /\ Pointed = 1
    /\ call.res.isNull

\* The text from offset start to offset end (text.substring(start, end)).
Substring(text, start, end) == SubSeq(text, start + 1, end)

\* C14: the span of every detection, sliced from the text, is the literal as
\* written with both its quote characters and without the blanks before it;
\* start is the start of the span and end is its start plus its length.
C14_SpanIsTheLiteral ==
    Detected =>
        LET sliced == Substring(call.doc.text, call.res.span.start,
                                call.res.span.start + call.res.span.length)
        IN  /\ call.res.span.start = call.res.start
            /\ call.res.span.start + call.res.span.length = call.res.end
            /\ \E q \in {"\"", "'"} : sliced = <<q>> \o call.res.route \o <<q>>
            /\ Pointed # 0
            /\ call.res.start = Quoted[Pointed].start
            /\ call.res.end = Quoted[Pointed].end

\* C14 happens: a literal written after a blank was detected.
C14_Witness ==
    /\ Detected
    /\ call.doc.lead = 1
    /\ call.res.start >= 1
    /\ call.doc.text[call.res.start] = " "

\* The quoted piece k is a route literal the detector takes.
Qualifies(k) ==
    /\ Written[k].part = "value"
    /\ Written[k].kind = "StringLiteral"
    /\ call.doc.binding.how \in {"assign", "shorthand", "nested", "pair"}
    /\ Written[k].prop = S_route
    /\ call.doc.context \in WithinPath
    /\ Written[k].value # <<>> /\ Head(Written[k].value) = "/"

\* C15: a position at the opening quote of a qualifying route literal gives
\* that literal; a position outside the text (negative, or at or after its
\* end) gives null.
C15_CursorBoundaries ==
    call.op = "detected" =>
        /\ \A k \in 1..Len(Quoted) :
              (Qualifies(k) /\ call.position = Quoted[k].start) =>
                  /\ ~call.res.isNull
                  /\ call.res.start = call.position
                  /\ call.res.route = Written[k].value
        /\ (call.position < 0 \/ call.position >= Len(call.doc.text)) => call.res.isNull

\* C15 happens: the position is the opening quote, and the literal is detected.
C15_Witness ==
    /\ Detected
    /\ call.position = call.res.start
    /\ call.doc.text[call.position + 1] \in {"\"", "'"}

----------------------------------------------------------------------------
(* plugin.ts: the proxy of the language service. *)

\* What the request meets in the host: whether the language service has a
\* program and the program the source file, where the target file exports
\* Route (0: not found), and which call of the host throws (fault): the
\* program accessor, the syntax tree under the detector, sys.fileExists,
\* sys.directoryExists, sys.readDirectory of the app directory, or the
\* program while the export is looked up.
HostCases ==
    { [program |-> TRUE, sourceFile |-> TRUE, exportAt |-> 0, fault |-> "none"],
      [program |-> TRUE, sourceFile |-> TRUE, exportAt |-> 13, fault |-> "none"],
      [program |-> FALSE, sourceFile |-> FALSE, exportAt |-> 0, fault |-> "none"],
      [program |-> TRUE, sourceFile |-> FALSE, exportAt |-> 0, fault |-> "none"] }
    \cup { [program |-> TRUE, sourceFile |-> TRUE, exportAt |-> 0, fault |-> f] :
             f \in {"getProgram", "detectRouteString", "fileExists", "directoryExists",
                    "readDirectory", "findRouteExportPosition"} }

\* languageService.getDefinitionAndBoundSpan(fileName, position): the
\* answer of the original language service.
Original(position) == [by |-> "languageService", position |-> position]

\* The outcomes of getRouteDefinition: a definition, undefined, or an
\* exception; detected and found tell how far the request came.
RouteDefinition(value) ==
    [raised |-> FALSE, defined |-> TRUE, value |-> value, detected |-> TRUE, found |-> TRUE]
NoDefinition(detected) ==
    [raised |-> FALSE, defined |-> FALSE, value |-> <<>>, detected |-> detected, found |-> FALSE]
Exception(detected, found) ==
    [raised |-> TRUE, defined |-> FALSE, value |-> <<>>, detected |-> detected, found |-> found]

\* findRouteExportPosition(typescript, program, filePath)
findRouteExportPosition(case, filePath) == case.exportAt

\* Mutant of definitionOf: the bound span is the text between the quotes.
definitionOf_BetweenQuotes(routeInfo, resolution, case) ==
    IF resolution.isNull \/ ~resolution.exists THEN NoDefinition(TRUE)
    ELSE IF case.fault = "findRouteExportPosition" THEN Exception(TRUE, TRUE)
    ELSE RouteDefinition(
             [definitions |->
                  << [fileName |-> resolution.filePath,
                      textSpan |-> [start |-> findRouteExportPosition(case, resolution.filePath),
                                    length |-> 0],
                      kind |-> "const", name |-> "Route",
                      containerName |-> "", containerKind |-> "module"] >>,
              textSpan |-> [start |-> routeInfo.span.start + 1,
                            length |-> routeInfo.span.length - 2]])

\* getRouteDefinition, last part: the definition of a resolved route
\* (resolution is the file of the direct or of the group-aware resolution).
definitionOf(routeInfo, resolution, case) ==
    IF resolution.isNull \/ ~resolution.exists THEN NoDefinition(TRUE)
    ELSE IF case.fault = "findRouteExportPosition" THEN Exception(TRUE, TRUE)
    ELSE RouteDefinition(
             [definitions |->
                  << [fileName |-> resolution.filePath,
                      textSpan |-> [start |-> findRouteExportPosition(case, resolution.filePath),
                                    length |-> 0],
                      kind |-> "const", name |-> "Route",
                      containerName |-> "", containerKind |-> "module"] >>,
              textSpan |-> routeInfo.span])

\* resolution = { filePath: groupPath, exists: true } when the group-aware
\* search found a file, the direct resolution otherwise
groupResolution(direct, groupPath) ==
    IF groupPath.found THEN Resolution(groupPath.path, TRUE) ELSE direct

\* Mutant of resolveWithGroups: the group-aware search runs whatever the
\* direct resolution gave, and its file is preferred.
resolveWithGroups_GroupsFirst(routeInfo, direct, case) ==
    IF case.fault = "directoryExists" /\ parseRouteSegments(routeInfo.route) # <<>>
    THEN Exception(TRUE, FALSE)
    ELSE definitionOf(routeInfo,
                      groupResolution(direct,
                          findRouteTypeWithGroups(
                              FS(IF case.fault = "readDirectory" THEN {AppRoot} ELSE {}),
                              routeInfo.route, ProjectPath, config)),
                      case)

\* getRouteDefinition, middle part: the group-aware search when the direct
\* resolution gave no existing file.
resolveWithGroups(routeInfo, direct, case) ==
    IF direct.isNull \/ ~direct.exists
    THEN IF case.fault = "directoryExists" /\ parseRouteSegments(routeInfo.route) # <<>>
         THEN Exception(TRUE, FALSE)
         ELSE definitionOf(routeInfo,
                           groupResolution(direct,
                               findRouteTypeWithGroups(
                                   FS(IF case.fault = "readDirectory" THEN {AppRoot} ELSE {}),
                                   routeInfo.route, ProjectPath, config)),
                           case)
    ELSE definitionOf(routeInfo, direct, case)

\* getRouteDefinition, from the detected route on
resolveDetected(routeInfo, case) ==
    IF routeInfo.isNull THEN NoDefinition(FALSE)
    ELSE IF case.fault = "fileExists" THEN Exception(TRUE, FALSE)
    ELSE resolveWithGroups(routeInfo,
                           resolveRouteToFile(FS({}), routeInfo.route, ProjectPath, config),
                           case)

\* getRouteDefinition(typescript, info, config, logger, fileName, position)
getRouteDefinition(doc, position, case) ==
    IF case.fault = "getProgram" THEN Exception(FALSE, FALSE)
    ELSE IF ~case.program THEN NoDefinition(FALSE)
    ELSE IF ~case.sourceFile THEN NoDefinition(FALSE)
    ELSE IF case.fault = "detectRouteString" THEN Exception(FALSE, FALSE)
    ELSE resolveDetected(detectRouteString(doc.sourceFile, position), case)

\* What the caller of proxy.getDefinitionAndBoundSpan gets: a value, or the
\* exception (raised); delegated says that the original service was asked.
Returned(value, delegated, route) ==
    [raised |-> FALSE, value |-> value, delegated |-> delegated, route |-> route]
ThrownToCaller(route) ==
    [raised |-> TRUE, value |-> <<>>, delegated |-> FALSE, route |-> route]

\* Mutant of onRouteError: the exception is thrown on.
onRouteError_Rethrow(position, routeDefinition) == ThrownToCaller(routeDefinition)

\* catch (error) { logger.error(...) }, then the fall back to the original service
onRouteError(position, routeDefinition) == Returned(Original(position), TRUE, routeDefinition)

\* the part of proxy.getDefinitionAndBoundSpan after getRouteDefinition
answer(position, routeDefinition) ==
    IF routeDefinition.raised THEN onRouteError(position, routeDefinition)
    ELSE IF routeDefinition.defined
         THEN Returned(routeDefinition.value, FALSE, routeDefinition)
    ELSE Returned(Original(position), TRUE, routeDefinition)

\* proxy.getDefinitionAndBoundSpan(fileName, position)
getDefinitionAndBoundSpan(doc, position, case) ==
    answer(position, getRouteDefinition(doc, position, case))

----------------------------------------------------------------------------
(* The plugin specification: Go to Definition requests on three source     *)
(* files, while the files, a route group of the app directory and the      *)
(* directory "_a" inside it come and go.                                   *)

RouteLiteral(r) == [kind |-> "StringLiteral", quote |-> "\"", value |-> r]

PluginDocuments ==
    { Document("$path(_)", [how |-> "assign", prop |-> S_route], RouteLiteral(R_root), 1),
      Document("$path(_)", [how |-> "assign", prop |-> S_route], RouteLiteral(R_esc), 1),
      Document("other(_)", [how |-> "assign", prop |-> S_route], RouteLiteral(R_esc), 1) }

\* The positions asked for: the first character of the text and the
\* character after the opening quote of the literal.
PluginPositions(doc) == {0, QuotedFrom(doc.text, 1)[1].start + 1}

GetDefinitionAndBoundSpan(doc, position, case) ==
    /\ call.op = "idle"
    /\ call' = [op |-> "definition", doc |-> doc, position |-> position, case |-> case,
                res |-> getDefinitionAndBoundSpan(doc, position, case)]
    /\ UNCHANGED <<files, tree, host>>

NextPlugin ==
    \/ Mkdir(AppRoot, N_g)
    \/ (Append(AppRoot, N_g) \in DOMAIN tree /\ Mkdir(Append(AppRoot, N_g), N_ua))
    \/ Mkdir(AppRoot, N_ua)
    \/ \E dir \in DOMAIN tree : Rmdir(dir)
    \/ \E dir \in DOMAIN tree, name \in FileNames : WriteFile(dir, name)
    \/ \E f \in files : RemoveFile(f)
    \/ \E doc \in PluginDocuments, case \in HostCases :
          \E position \in PluginPositions(doc) : GetDefinitionAndBoundSpan(doc, position, case)
    \/ Return

SpecPlugin == Init /\ [][NextPlugin]_vars

\* C18: the request never ends in an exception, and whenever no route
\* literal is detected, no definition file is found, or the route handling
\* throws, the caller gets what the original language service answers for
\* the same position.
C18_FallsBackToOriginal ==
    call.op = "definition" =>
        /\ ~call.res.raised
        /\ (~call.res.route.detected \/ ~call.res.route.found \/ call.res.route.raised) =>
              call.res.delegated /\ call.res.value = Original(call.position)
        /\ (call.doc.context = "other(_)" \/ call.position = 0 \/ files = {}
                \/ ~call.case.program \/ ~call.case.sourceFile
                \/ call.case.fault \in {"getProgram", "detectRouteString", "fileExists",
                                        "findRouteExportPosition"}) =>
              call.res.value = Original(call.position)

\* C18 happens: the definition file exists, sys.fileExists throws inside
\* the resolution, and the caller gets the answer of the original service.
C18_Witness ==
    /\ call.op = "definition"
    /\ call.case.fault = "fileExists"
    /\ files # {}
    /\ call.res.route.raised /\ call.res.route.detected
    /\ ~call.res.raised
    /\ call.res.value = Original(call.position)

----------------------------------------------------------------------------
(* The sibling specification: the two route groups of the app directory,   *)
(* the directory "_a" in each of them and the definition files in these    *)
(* come and go, in either creation order, between group-aware searches.    *)

\* A new directory, listed last in its parent.
MakeDirectory(parent, name) ==
    LET child == Append(parent, name)
    IN  /\ call.op = "idle"
        /\ parent \in DOMAIN tree
        /\ child \notin DOMAIN tree
        /\ child \notin files
        /\ tree' = [d \in DOMAIN tree \cup {child} |->
                      IF d = child THEN <<>>
                      ELSE IF d = parent THEN Append(tree[d], name)
                      ELSE tree[d]]
        /\ UNCHANGED <<files, host, call>>

\* The route-group directories of the app root that exist.
GroupDirs == {Append(AppRoot, g) : g \in GroupNames} \cap DOMAIN tree

NextSiblings ==
    \/ \E g \in GroupNames : MakeDirectory(AppRoot, g)
    \/ \E dir \in GroupDirs : MakeDirectory(dir, N_ua)
    \/ \E dir \in DOMAIN tree : Rmdir(dir)
    \/ \E dir \in DOMAIN tree \ {AppRoot}, name \in FileNames : WriteFile(dir, name)
    \/ \E f \in files : RemoveFile(f)
    \/ \E route \in {R_root, R_esc}, failing \in {{}, {Append(AppRoot, N_g)}} :
          FindRouteTypeWithGroups(route, failing)
    \/ Return

SpecSiblings == Init /\ [][NextSiblings]_vars

\* C21: when the direct path gives no file and several route groups of the
\* app root each hold a match, the match of the group listed first is
\* returned, and no directory of a group listed after it is listed.
C21_FirstListedSiblingWins ==
    (call.op = "groups" /\ Segs # <<>>) =>
        LET hits == {i \in 1..Len(RootGroups) : InRootGroup(i).found}
            first == CHOOSE i \in hits : \A j \in hits : i <= j
        IN  (~(FirstDirect \in DOMAIN tree /\ BelowFirstDirect.found) /\ hits # {}) =>
                /\ call.res.found
                /\ call.res.path = InRootGroup(first).path
                /\ IsPrefix(Append(AppRoot, RootGroups[first]), call.res.path)
                /\ \A d \in call.res.listed :
                      \A j \in (first + 1)..Len(RootGroups) :
                          ~IsPrefix(Append(AppRoot, RootGroups[j]), d)

\* C21 happens: "(h)" is listed before "(g)", both hold a definition file
\* of the route, and the file below "(h)" was returned.
C21_Witness ==
    /\ call.op = "groups" /\ call.route = R_esc
    /\ tree[AppRoot] = <<N_h, N_g>>
    /\ \A g \in GroupNames :
          \E name \in FileNames : Append(Append(Append(AppRoot, g), N_ua), name) \in files
    /\ call.res.found
    /\ IsPrefix(Append(AppRoot, N_h), call.res.path)
    /\ call.res.listed = {AppRoot}

----------------------------------------------------------------------------
(* The directory-name specification: the app directory holds one           *)
(* subdirectory, of any name of at most MaxNameLen characters, with the    *)
(* directory "_a" and its definition file inside; the group-aware search   *)
(* of "/%5Fa" finds the file exactly when it enters that subdirectory as a *)
(* route group.                                                            *)

MaxNameLen == 6     \* characters of the subdirectory's name

NameCharacters == {"(", ")", "a", ".", "@"}

\* The names a directory can have ("." and ".." are not names of entries).
DirectoryNames ==
    UNION {[1..n -> NameCharacters] : n \in 1..MaxNameLen} \ {S_dot, S_dotdot}

\* <appDir>/<name>/_a/<routeTypeFileName>.ts and the directories down to it
NamedTree(cfg, root, name) ==
    [d \in DOMAIN BaseTree(cfg) \cup {Append(root, name), Append(Append(root, name), N_ua)} |->
        IF d \in DOMAIN BaseTree(cfg) /\ d # root THEN BaseTree(cfg)[d]
        ELSE IF d = root THEN <<name>>
        ELSE IF d = Append(root, name) THEN <<N_ua>>
        ELSE <<>>]

InitNames ==
    /\ host \in Hosts
    /\ \E name \in DirectoryNames :
          /\ tree = NamedTree(config, AppRoot, name)
          /\ files = {Append(Append(Append(AppRoot, name), N_ua), routeTypeFile(config, S_ts))}
          /\ call = [op |-> "named", name |-> name]

SearchNamed ==
    /\ call.op = "named"
    /\ call' = [op |-> "groups", route |-> R_esc, failing |-> {}, name |-> call.name,
                res |-> findRouteTypeWithGroups(FS({}), R_esc, ProjectPath, config)]
    /\ UNCHANGED <<files, tree, host>>

NextNames == SearchNamed

SpecNames == InitNames /\ [][NextNames]_vars

\* A name fully wrapped in a single pair of parentheses, with a non-empty
\* interior that holds no further parenthesis.
SingleWrapped(name) ==
    /\ Len(name) >= 3
    /\ name[1] = "(" /\ name[Len(name)] = ")"
    /\ \A i \in 2..(Len(name) - 1) : name[i] \notin {"(", ")"}

\* C22 as stated: the listed directory is entered as a route group, and the
\* file below it found, if and only if its name is wrapped in a single pair
\* of parentheses with a non-empty interior.
C22_OnlySingleWrappedNames ==
    (call.op = "groups" /\ "name" \in DOMAIN call) =>
        /\ call.res.found <=> SingleWrapped(call.name)
        /\ isRouteGroupName(call.name) <=> SingleWrapped(call.name)

----------------------------------------------------------------------------
(* The search specification: searchDir executed call by call.  call.stack  *)
(* holds the activations of searchDir, the innermost last; an activation   *)
(* is at "start", waits for the search of the direct path ("direct"), is   *)
(* about to read the directory ("list"), is at entry i of the listing      *)
(* ("loop"), or waits for the search of a route group ("group").           *)
(* call.ret is the value the activation that ended last has returned.      *)

R_up4 == <<"/", ".", ".", "/", ".", ".", "/", ".", ".", "/", ".", ".">>
SearchRoutes == {R_root, R_esc, R_up, R_up4}

Activation(currentDir, remainingSegments) ==
    [dir |-> currentDir, segs |-> remainingSegments, pc |-> "start", entries |-> <<>>, i |-> 0]

NoValue == [pending |-> FALSE, found |-> FALSE, path |-> <<>>]
Value(r) == [pending |-> TRUE, found |-> r.found, path |-> r.path]

Top == call.stack[Len(call.stack)]
Below == SubSeq(call.stack, 1, Len(call.stack) - 1)
Max(a, b) == IF a >= b THEN a ELSE b

\* the innermost activation returns r
ReturnValue(r) == [call EXCEPT !.stack = Below, !.ret = Value(r)]
\* the innermost activation goes on at pc
GoOn(frame) == [call EXCEPT !.stack = Append(Below, frame), !.ret = NoValue]
\* the innermost activation, now at pc, calls searchDir(dir, segs)
Invoke(pc, dir, segs) ==
    [call EXCEPT !.stack = Append(Append(Below, [Top EXCEPT !.pc = pc]), Activation(dir, segs)),
                 !.ret = NoValue,
                 !.deepest = Max(@, Len(call.stack) + 1)]

\* findRouteTypeWithGroups(typescript, route, projectPath, config) is called
StartSearch(route, failing) ==
    /\ call.op = "idle"
    /\ call' = [op |-> "searching", route |-> route, failing |-> failing,
                stack |-> << Activation(appDirPathOf(ProjectPath, config),
                                        escapedSegmentsOf(parseRouteSegments(route))) >>,
                ret |-> NoValue, deepest |-> 1]
    /\ UNCHANGED <<files, tree, host>>

\* searchDir from its first line to the recursive call on the direct path
EnterDir ==
    /\ call.op = "searching" /\ call.stack # <<>> /\ ~call.ret.pending
    /\ Top.pc = "start"
    /\ call' = IF Len(Top.segs) = 0
               THEN ReturnValue(searchHere(FS(call.failing), Top.dir, config))
               ELSE IF Head(Top.segs) = <<>> THEN ReturnValue(NotFound)
               ELSE LET directPath == PathJoin(Top.dir, <<Head(Top.segs)>>)
                    IN  IF directoryExists(FS(call.failing), directPath)
                        THEN Invoke("direct", directPath, Tail(Top.segs))
                        ELSE GoOn([Top EXCEPT !.pc = "list"])
    /\ UNCHANGED <<files, tree, host>>

\* a recursive call has returned: if (result) return result
TakeResult ==
    /\ call.op = "searching" /\ call.stack # <<>> /\ call.ret.pending
    /\ Top.pc \in {"direct", "group"}
    /\ call' = IF call.ret.found THEN ReturnValue(call.ret)
               ELSE IF Top.pc = "direct" THEN GoOn([Top EXCEPT !.pc = "list"])
               ELSE GoOn([Top EXCEPT !.pc = "loop", !.i = @ + 1])
    /\ UNCHANGED <<files, tree, host>>

\* const entries = typescript.sys.readDirectory(currentDir, ...), or the catch block
ListDirectory ==
    /\ call.op = "searching" /\ call.stack # <<>> /\ ~call.ret.pending
    /\ Top.pc = "list"
    /\ LET listing == readDirectory(FS(call.failing), Top.dir)
       IN  call' = IF listing.threw THEN ReturnValue(onReadFailure)
                   ELSE GoOn([Top EXCEPT !.pc = "loop", !.entries = listing.entries, !.i = 1])
    /\ UNCHANGED <<files, tree, host>>

\* one turn of for (const entry of entries), up to the recursive call
NextEntry ==
    /\ call.op = "searching" /\ call.stack # <<>> /\ ~call.ret.pending
    /\ Top.pc = "loop"
    /\ call' = IF Top.i > Len(Top.entries) THEN ReturnValue(NotFound)
               ELSE LET dirName == dirNameOf(Top.entries[Top.i])
                    IN  IF dirName = <<>> \/ ~isRouteGroupName(dirName)
                        THEN GoOn([Top EXCEPT !.i = @ + 1])
                        ELSE Invoke("group", PathJoin(Top.dir, <<dirName>>), Top.segs)
    /\ UNCHANGED <<files, tree, host>>

\* the outermost searchDir has returned
FinishSearch ==
    /\ call.op = "searching" /\ call.stack = <<>> /\ call.ret.pending
    /\ call' = [op |-> "searched", route |-> call.route, failing |-> call.failing,
                res |-> [found |-> call.ret.found, path |-> call.ret.path],
                deepest |-> call.deepest]
    /\ UNCHANGED <<files, tree, host>>

SearchStep == EnterDir \/ TakeResult \/ ListDirectory \/ NextEntry \/ FinishSearch

NextSearch ==
    \/ MakeDirectory(AppRoot, N_g)
    \/ (Append(AppRoot, N_g) \in DOMAIN tree /\ MakeDirectory(Append(AppRoot, N_g), N_ua))
    \/ \E dir \in DOMAIN tree : Rmdir(dir)
    \/ \E dir \in AppDirs, name \in FileNames : WriteFile(dir, name)
    \/ \E f \in files : RemoveFile(f)
    \/ \E route \in SearchRoutes, failing \in {{}, {AppRoot}} : StartSearch(route, failing)
    \/ EnterDir
    \/ TakeResult
    \/ ListDirectory
    \/ NextEntry
    \/ FinishSearch
    \/ (call.op = "searched" /\ Return)

\* The calls are synchronous: a search that has started runs to its end.
SpecSearch == Init /\ [][NextSearch]_vars /\ WF_vars(SearchStep)

\* The search returns what findRouteTypeWithGroups computes in one piece.
SearchAgrees ==
    call.op = "searched" =>
        LET whole == findRouteTypeWithGroups(FS(call.failing), call.route, ProjectPath, config)
        IN  call.res.found = whole.found /\ call.res.path = whole.path

\* Every search that starts ends.
SearchTerminates == (call.op = "searching") ~> (call.op = "searched")

\* The depth of the directory tree: the components of its longest path.
TreeDepth == CHOOSE n \in 0..20 : /\ \E d \in DOMAIN tree : Len(d) = n
                                  /\ \A d \in DOMAIN tree : Len(d) <= n

\* C23 as stated: the search ends, and the recursive calls that are active
\* at once below the first one never exceed the segment count plus the
\* depth of the directory tree.
C23_DepthBounded ==
    call.op \in {"searching", "searched"} =>
        call.deepest - 1 <= Len(Segs) + TreeDepth

----------------------------------------------------------------------------
(* Properties of the orchestration in getRouteDefinition (plugin          *)
(* specification).                                                        *)

\* The route of the request's literal, and what the two resolutions give
\* for it on the file system of the request.
RequestedRoute == call.doc.value.value
DirectResolution == resolveRouteToFile(FS({}), RequestedRoute, ProjectPath, config)
GroupSearch == findRouteTypeWithGroups(FS({}), RequestedRoute, ProjectPath, config)

\* The request reached the resolution and no host call failed before it.
Resolving ==
    /\ call.op = "definition"
    /\ call.res.route.detected
    /\ call.case.fault \in {"none", "directoryExists"}

\* The file the returned definition points to.
Target == call.res.value.definitions[1].fileName

\* C24: when the direct file exists the definition points to it and the
\* group-aware search is not run (a throwing directoryExists, which only
\* that search calls, goes unnoticed), also when a route group holds a
\* matching file; when the direct file is missing the group-aware search
\* is run, and the definition points to the file it finds.
C24_DirectThenGroups ==
    Resolving =>
        /\ DirectResolution.exists =>
              /\ ~call.res.route.raised /\ ~call.res.delegated
              /\ Target = DirectResolution.filePath
        /\ (~DirectResolution.exists /\ call.case.fault = "directoryExists"
                /\ parseRouteSegments(RequestedRoute) # <<>>) =>
              call.res.route.raised
        /\ (~DirectResolution.exists /\ call.case.fault = "none" /\ GroupSearch.found) =>
              /\ ~call.res.delegated
              /\ Target = GroupSearch.path

\* C24 happens: the direct file and a file below a route group both match
\* the route, directoryExists would throw, and the definition points to
\* the direct file.
C24_Witness ==
    /\ Resolving
    /\ call.case.fault = "directoryExists"
    /\ RequestedRoute = R_esc
    /\ files = { Append(Append(AppRoot, N_ua), routeTypeFile(config, S_ts)),
                 Append(Append(Append(AppRoot, N_g), N_ua), routeTypeFile(config, S_ts)) }
    /\ ~call.res.delegated
    /\ Target = Append(Append(AppRoot, N_ua), routeTypeFile(config, S_ts))

\* The request points into the literal of a $path call and the host
\* answers every call.
OnRouteLiteral ==
    /\ call.op = "definition"
    /\ call.doc.context = "$path(_)"
    /\ QuotedFrom(call.doc.text, 1)[1].start <= call.position
    /\ call.position < QuotedFrom(call.doc.text, 1)[1].end
    /\ call.case.program /\ call.case.sourceFile
    /\ call.case.fault = "none"

\* The literal of the request's document, quotes included.
LiteralSpan ==
    LET q == QuotedFrom(call.doc.text, 1)[1]
    IN  [start |-> q.start, length |-> q.end - q.start]

\* C25: a request on a route literal whose definition file is resolved
\* gets exactly one definition, in the resolved file, bound to the span of
\* the whole literal with its quotes, and the original language service is
\* not asked.
C25_OneDefinitionOfTheLiteral ==
    /\ (OnRouteLiteral /\ (DirectResolution.exists \/ GroupSearch.found)) =>
          call.res.route.found /\ ~call.res.route.raised
    /\ (call.op = "definition" /\ call.res.route.detected /\ call.res.route.found
            /\ ~call.res.route.raised) =>
          /\ ~call.res.delegated
          /\ call.res.value # Original(call.position)
          /\ Len(call.res.value.definitions) = 1
          /\ Target \in files
          /\ Target = IF DirectResolution.exists THEN DirectResolution.filePath
                      ELSE GroupSearch.path
          /\ call.res.value.definitions[1].name = "Route"
          /\ call.res.value.textSpan = LiteralSpan

\* C25 happens: the literal "/%5Fa" is resolved below a route group, and
\* the one definition returned is bound to the seven characters of the
\* literal.
C25_Witness ==
    /\ OnRouteLiteral
    /\ RequestedRoute = R_esc
    /\ ~DirectResolution.exists /\ GroupSearch.found
    /\ ~call.res.delegated
    /\ Len(call.res.value.definitions) = 1
    /\ Target = GroupSearch.path
    /\ call.res.value.textSpan.length = 7

----------------------------------------------------------------------------
(* Properties that relate the two resolutions (file system specification). *)

\* What resolveRouteToFile gives for the route of the call just made.
DirectOfCall == resolveRouteToFile(FS({}), call.route, ProjectPath, config)

\* C26: whenever the direct resolution of a route finds its file, the
\* group-aware search of the same route on the same file system returns
\* the same path, reached through the segments' directories only and
\* without a directory listing, whatever route groups exist and whichever
\* listing would fail.
C26_GroupsAgreeOnDirectHits ==
    (call.op = "groups" /\ DirectOfCall.exists) =>
        /\ call.res.found
        /\ call.res.path = DirectOfCall.filePath
        /\ \A i \in 1..Len(call.res.via) : call.res.via[i] = "segment"
        /\ call.res.listed = {}

\* C26 happens: "/_a/%5Fa" has both definition files in <appDir>/_a/_a, a
\* route group exists next to "_a", and the search returned the .ts file
\* of the direct resolution.
C26_Witness ==
    /\ call.op = "groups" /\ call.route = R_two
    /\ Append(AppRoot, N_g) \in DOMAIN tree
    /\ files = {Append(PlainDir(<<N_ua, N_ua>>), n) : n \in FileNames}
    /\ DirectOfCall.exists
    /\ call.res.path = Append(PlainDir(<<N_ua, N_ua>>), routeTypeFile(config, S_ts))

\* C27: every path findRouteTypeWithGroups returns is named
\* <routeTypeFileName>.ts or <routeTypeFileName>.tsx and is a file that
\* fileExists answers true for on the file system of the call; no
\* exception leaves the call.
C27_ReturnsOnlyExistingFiles ==
    call.op = "groups" =>
        /\ ~call.res.raised
        /\ call.res.found =>
              /\ call.res.path # <<>>
              /\ NameOf(call.res.path) \in DefinitionNames
              /\ fileExists(FS(call.failing), call.res.path)
        /\ ~call.res.found => call.res.path = <<>>

\* C27 happens: the only definition file is a .tsx file below a route
\* group, and it is the path returned.
C27_Witness ==
    /\ call.op = "groups" /\ call.route = R_esc
    /\ call.res.found
    /\ NameOf(call.res.path) = routeTypeFile(config, S_tsx)
    /\ files = {call.res.path}
    /\ call.res.via = <<"group", "segment">>

----------------------------------------------------------------------------
(* Further properties of the detector (detection specification).           *)

\* C28: the positions that give a qualifying route literal are exactly
\* those from its opening quote to its closing quote: every such position
\* gives that literal, the position just after the closing quote gives
\* null, and so does every position in no qualifying literal.
C28_HalfOpenHitTest ==
    call.op = "detected" =>
        /\ \A k \in 1..Len(Quoted) :
              Qualifies(k) =>
                  /\ (Quoted[k].start <= call.position /\ call.position <= Quoted[k].end - 1) =>
                        /\ ~call.res.isNull
                        /\ call.res.start = Quoted[k].start
                        /\ call.res.end = Quoted[k].end
                  /\ call.position = Quoted[k].end => call.res.isNull
        /\ ~call.res.isNull =>
              \E k \in 1..Len(Quoted) :
                  /\ Qualifies(k)
                  /\ Quoted[k].start <= call.position /\ call.position < Quoted[k].end

\* C28 happens: the position is the closing quote of the literal, and the
\* literal is detected.
C28_Witness ==
    /\ Detected
    /\ call.position = call.res.end - 1
    /\ call.position > call.res.start
    /\ call.doc.text[call.position + 1] \in {"\"", "'"}

\* The position lies in a string literal that starts with "/" and is the
\* value of a property named route.
OnRouteBoundLiteral ==
    /\ Pointed # 0
    /\ Written[Pointed].part = "value"
    /\ Written[Pointed].kind = "StringLiteral"
    /\ Written[Pointed].bound /\ Written[Pointed].prop = S_route
    /\ call.doc.binding.how # "quoted"
    /\ Written[Pointed].value # <<>> /\ Head(Written[Pointed].value) = "/"

\* C29: a route-bound literal is detected when a call of $path encloses it
\* at any distance: as the argument of a call of another function inside
\* the $path call, around a $path call, in parentheses, or in an object
\* nested in the argument; without any enclosing $path call it is not.
C29_AnyEnclosingPathCall ==
    (call.op = "detected" /\ OnRouteBoundLiteral) =>
        /\ call.doc.context \in {"$path(other(_))", "other($path(_))", "$path((_))",
                                 "$path(_)", "lib.$path(_)"} =>
              /\ ~call.res.isNull
              /\ call.res.route = Written[Pointed].value
        /\ call.doc.context \in {"other(_)", "$path.other(_)", "const x = _"} =>
              call.res.isNull

\* C29 happens: in $path(other({ name: { route: "/a" } })) the nearest call
\* is a call of other, the property is in a nested object, and the literal
\* is detected.
C29_Witness ==
    /\ Detected
    /\ call.doc.context = "$path(other(_))"
    /\ call.doc.binding.how = "nested"
    /\ call.res.route = <<"/", "a">>

\* The node findTokenAtPosition gives for the position of the call.
Token == findTokenAtPosition(call.doc.sourceFile, call.position)

\* C30: the node tested contains the position, as do all its ancestors,
\* and none of its children does; unless it is a string literal the result
\* is null: a position on a property name, on punctuation, on a blank, or
\* on an identifier, a template literal or a number that is the value of
\* route inside a $path call gives null.
C30_InnermostStringLiteral ==
    call.op = "detected" =>
        LET token == Token
            tested == NodeAt(call.doc.sourceFile, token.path)
        IN  /\ token.defined =>
                  /\ \A n \in 0..Len(token.path) :
                        contains(call.doc.sourceFile, SubSeq(token.path, 1, n), call.position)
                  /\ \A i \in 1..Len(tested.parts) :
                        tested.parts[i].kind # "Punctuation" =>
                            ~contains(call.doc.sourceFile, Append(token.path, i), call.position)
            /\ (token.defined /\ tested.kind # "StringLiteral") => call.res.isNull
            /\ ~token.defined => call.res.isNull
            /\ Pointed = 0 => call.res.isNull
            /\ (Pointed # 0 /\ Written[Pointed].kind # "StringLiteral") => call.res.isNull
            /\ (Pointed # 0 /\ Written[Pointed].part = "name") => call.res.isNull
            /\ call.doc.value.kind \in {"Identifier", "NoSubstitutionTemplateLiteral",
                                        "NumericLiteral"}
                  => (call.doc.binding.how # "pair" => call.res.isNull)

\* C30 happens: the position is inside the template literal that is the
\* value of route in a $path call, the node tested is that literal, and
\* the result is null.
C30_Witness ==
    /\ call.op = "detected"
    /\ call.doc.context = "$path(_)"
    /\ call.doc.binding = [how |-> "assign", prop |-> S_route]
    /\ call.doc.value.kind = "NoSubstitutionTemplateLiteral"
    /\ Pointed = 1
    /\ Token.defined
    /\ NodeAt(call.doc.sourceFile, Token.path).kind = "NoSubstitutionTemplateLiteral"
    /\ call.res.isNull

====
